---- MODULE Spec2Model ----
(***************************************************************************)
(* Model of the categorical-value normalisation and clustering engine of   *)
(* the interview dashboard (dashboard/data_normaliser.py and               *)
(* dashboard/student_data_normaliser.py), and of the routines that carry   *)
(* its results and the interview backups to the document store             *)
(* (database.py, mongo_utils.py, normalise_mongodb_data.py).               *)
(*                                                                         *)
(* A Python string is a sequence of one-character strings.  A Python value *)
(* handed to the engine is a record [kind, s, n, d]: None, an int n, the   *)
(* string s, or a dict.                                                    *)
(***************************************************************************)
EXTENDS Integers, Sequences, FiniteSets, TLC

VARIABLES
    pc,                     \* position of the call being modelled
    variant,                \* which normaliser module is called
    entry,                  \* "cluster": cluster_similar_values is called directly;
                            \* "field": through normalise_field_values
    documents,              \* normalise_field_values: the documents argument
    field_path,             \* normalise_field_values: field_path.split('.')
    category,               \* the category argument ("none" stands for None)
    threshold,              \* the threshold argument, in hundredths
    value_list,             \* cluster_similar_values: the value_list argument
    cleaned_values,         \* local of cluster_similar_values
    sorted_values,          \* local: list(value_counts.index)
    seed_index,             \* local: position of the outer loop in sorted_values
    clusters,               \* local
    assigned,               \* local
    mapping,                \* local: cleaned value -> display name
    original_to_canonical,  \* returned: original value -> label
    cluster_info,           \* returned: label -> list of originals
    normalised_values,      \* normalise_field_values: the returned label list
    prev_threshold,         \* threshold of the previous call on the same batch, 0 if none
    prev_clusters,          \* clusters of the previous call on the same batch
    text,                   \* clean_text: the text argument
    cleaned,                \* clean_text: the value returned for text
    recleaned,              \* clean_text: the value returned for the returned value
    sim_a,                  \* similarity_ratio: first argument
    sim_b,                  \* similarity_ratio: second argument
    sim_ab,                 \* similarity_ratio(sim_a, sim_b)
    sim_ba,                 \* similarity_ratio(sim_b, sim_a)
    sim_aa,                 \* similarity_ratio(sim_a, sim_a)
    map_which,              \* apply_direct_mappings: which normaliser module is called
    map_in,                 \* apply_direct_mappings: the values argument
    map_out,                \* apply_direct_mappings(map_in, category)
    map_twice,              \* apply_direct_mappings(map_out, category)
    map_single,             \* position k: apply_direct_mappings([map_in[k]], category)[0]
    map_rev,                \* apply_direct_mappings(reversed map_in, category)
    range_call,             \* get_percentage_range: module, argument and returned value
    stats_which,            \* generate_stats_with_normalised_values: the module called
    stats_given,            \* the documents argument as it was handed to the first call
    stats_docs,             \* the documents argument as it is now
    stats,                  \* local, returned: the statistics
    docs_to_update,         \* local, returned (student module): the payloads
    doc_index,              \* student module: position of the loop over the documents
    gender_clusters,        \* student module: local
    subject_mentions,       \* student module: local
    stats_first,            \* what the first call on these documents returned
    save_call,              \* save_interview_bulk: the store, the disk and the call
    again,                  \* cluster_similar_values called again: what the first call
                            \* was given and what it returned
    upload,                 \* upload_local_backups: the backup files, the store, the call
    bulk                    \* the bulk-update routines: the documents, the store, the call

cluster_vars == <<variant, entry, documents, field_path, threshold, value_list,
                  cleaned_values, sorted_values, seed_index, clusters, assigned,
                  mapping, original_to_canonical, cluster_info, normalised_values,
                  prev_threshold, prev_clusters>>
clean_vars == <<text, cleaned, recleaned>>
sim_vars == <<sim_a, sim_b, sim_ab, sim_ba, sim_aa>>

map_vars == <<map_which, map_in, map_out, map_twice, map_single, map_rev>>
stats_vars == <<stats_which, stats_given, stats_docs, stats, docs_to_update, doc_index,
                gender_clusters, subject_mentions, stats_first>>
late_vars == <<again, upload, bulk>>
more_vars == <<range_call, stats_vars, save_call, late_vars>>
other_vars == <<map_vars, more_vars>>

vars == <<pc, category, cluster_vars, clean_vars, sim_vars, other_vars>>

\* No call of apply_direct_mappings is being followed.
MapIdle ==
    /\ map_which = "staff"
    /\ map_in = <<>>
    /\ map_out = <<>>
    /\ map_twice = <<>>
    /\ map_single = <<>>
    /\ map_rev = <<>>

\* No call of generate_stats_with_normalised_values is being followed.
StatsIdle ==
    /\ stats_which = "staff"
    /\ stats_given = <<>>
    /\ stats_docs = <<>>
    /\ stats = <<>>
    /\ docs_to_update = <<>>
    /\ doc_index = 0
    /\ gender_clusters = <<>>
    /\ subject_mentions = <<>>
    /\ stats_first = [called |-> FALSE]

\* No call of save_interview_bulk is being followed.
SaveIdle ==
    save_call = [database_up |-> FALSE, answers |-> <<>>, disk_ok |-> FALSE,
                 attempts |-> 0, backup_attempted |-> FALSE, backup_written |-> FALSE,
                 result |-> "none"]

\* No second call of cluster_similar_values, no upload of backups and no bulk
\* update is being followed.
LateIdle ==
    /\ again = [kind |-> "first"]
    /\ upload = <<>>
    /\ bulk = <<>>

\* No call outside the normaliser is being followed.
MoreIdle ==
    /\ range_call = [module |-> "data_summary", percentage |-> 0, result |-> ""]
    /\ StatsIdle
    /\ SaveIdle
    /\ LateIdle

OtherIdle == MapIdle /\ MoreIdle

(***************************************************************************)
(* Characters                                                              *)
(***************************************************************************)
Lowers == <<"a", "b", "c", "d", "e", "f", "g", "h", "i", "j", "k", "l", "m",
            "n", "o", "p", "q", "r", "s", "t", "u", "v", "w", "x", "y", "z">>
Uppers == <<"A", "B", "C", "D", "E", "F", "G", "H", "I", "J", "K", "L", "M",
            "N", "O", "P", "Q", "R", "S", "T", "U", "V", "W", "X", "Y", "Z">>
Digits == {"0", "1", "2", "3", "4", "5", "6", "7", "8", "9"}

LowerSet == {Lowers[k] : k \in 1..Len(Lowers)}
UpperSet == {Uppers[k] : k \in 1..Len(Uppers)}

\* \w of the re module: letters, digits and the underscore.
IsWordChar(c) == c \in LowerSet \cup UpperSet \cup Digits \cup {"_"}

\* \s of the re module (the whitespace the model's alphabet holds).
IsSpaceChar(c) == c \in {" ", "\t", "\n"}

IsDigitChar(c) == c \in Digits

\* str.lower() and str.upper() on one character.
LowerChar(c) ==
    IF c \in UpperSet THEN Lowers[CHOOSE k \in 1..Len(Uppers) : Uppers[k] = c] ELSE c

UpperChar(c) ==
    IF c \in LowerSet THEN Uppers[CHOOSE k \in 1..Len(Lowers) : Lowers[k] = c] ELSE c

lower(s) == [k \in 1..Len(s) |-> LowerChar(s[k])]

(***************************************************************************)
(* Python values                                                           *)
(***************************************************************************)
PyNone == [kind |-> "none", s |-> <<>>, n |-> 0, d |-> <<>>]
PyInt(n) == [kind |-> "int", s |-> <<>>, n |-> n, d |-> <<>>]
PyStr(s) == [kind |-> "str", s |-> s, n |-> 0, d |-> <<>>]
\* A dict is a sequence of <<key, value>> items, keys distinct.
PyDict(items) == [kind |-> "dict", s |-> <<>>, n |-> 0, d |-> items]
\* A list is the sequence of its items.
PyList(items) == [kind |-> "list", s |-> <<>>, n |-> 0, d |-> items]

\* bool(v)
Truthy(v) ==
    CASE v.kind = "none" -> FALSE
      [] v.kind = "int" -> v.n # 0
      [] v.kind \in {"dict", "list"} -> v.d # <<>>
      [] OTHER -> v.s # <<>>

isinstance_str(v) == v.kind = "str"

Unknown == <<"U", "n", "k", "n", "o", "w", "n">>

(***************************************************************************)
(* The regular expressions clean_text uses                                 *)
(***************************************************************************)
\* s[i..i+Len(lit)-1] = lit
HasAt(s, i, lit) ==
    /\ i >= 1
    /\ i + Len(lit) - 1 <= Len(s)
    /\ \A k \in 1..Len(lit) : s[i + k - 1] = lit[k]

\* \b between s[p-1] and s[p], for p in 1..Len(s)+1
BoundaryAt(s, p) ==
    ((p > 1) /\ IsWordChar(s[p - 1])) # ((p <= Len(s)) /\ IsWordChar(s[p]))

\* Last index of the longest run of whitespace (digits) that starts at i; i-1 when
\* s[i] is not in the class.
RECURSIVE SpaceRunEnd(_, _)
SpaceRunEnd(s, i) ==
    IF i <= Len(s) /\ IsSpaceChar(s[i]) THEN SpaceRunEnd(s, i + 1) ELSE i - 1

RECURSIVE DigitRunEnd(_, _)
DigitRunEnd(s, i) ==
    IF i <= Len(s) /\ IsDigitChar(s[i]) THEN DigitRunEnd(s, i + 1) ELSE i - 1

RedactedOpen == <<"[", "r", "e", "d", "a", "c", "t", "e", "d", ":">>

\* r'\[redacted:.*?\]' at i: the index of the first "]" after the opening, no
\* newline in between ('.' does not match a newline); 0 when there is no match.
RedactedMatchEnd(s, i) ==
    IF ~HasAt(s, i, RedactedOpen) THEN 0
    ELSE LET from == i + Len(RedactedOpen)
             ends == {j \in from..Len(s) :
                        /\ s[j] = "]"
                        /\ \A k \in from..(j - 1) : s[k] # "\n" /\ s[k] # "]"}
         IN IF ends = {} THEN 0 ELSE CHOOSE j \in ends : TRUE

\* r'\blit\b' at i
WordMatchEnd(lit, s, i) ==
    IF BoundaryAt(s, i) /\ HasAt(s, i, lit) /\ BoundaryAt(s, i + Len(lit))
    THEN i + Len(lit) - 1 ELSE 0

\* r'\blits?\b' at i: the optional s is tried first (greedy), then dropped
PluralMatchEnd(lit, s, i) ==
    LET e == i + Len(lit)
    IN IF ~(BoundaryAt(s, i) /\ HasAt(s, i, lit)) THEN 0
       ELSE IF e <= Len(s) /\ s[e] = "s" /\ BoundaryAt(s, e + 1) THEN e
       ELSE IF BoundaryAt(s, e) THEN e - 1
       ELSE 0

LevelLit == <<"l", "e", "v", "e", "l">>

\* r'\blevel\s+\d+\b' at i.  Giving back a space or a digit never helps: the next
\* character is then a space (no digit) or a digit (no boundary).
LevelMatchEnd(s, i) ==
    IF ~(BoundaryAt(s, i) /\ HasAt(s, i, LevelLit)) THEN 0
    ELSE LET sp == SpaceRunEnd(s, i + Len(LevelLit))
             dg == DigitRunEnd(s, sp + 1)
         IN IF sp >= i + Len(LevelLit) /\ dg >= sp + 1 /\ BoundaryAt(s, dg + 1)
            THEN dg ELSE 0

\* r'\b(lit1|lit2|...)\b' at i: the alternatives are tried in their order.
WordsMatchEnd(lits, s, i) ==
    LET hits == {k \in 1..Len(lits) : WordMatchEnd(lits[k], s, i) # 0}
    IN IF hits = {} THEN 0
       ELSE WordMatchEnd(lits[CHOOSE k \in hits : \A j \in hits : k <= j], s, i)

\* A pattern is [re, lit]; MatchEnd is the last index of its match at i, or 0.
MatchEnd(p, s, i) ==
    CASE p.re = "redacted" -> RedactedMatchEnd(s, i)
      [] p.re = "word" -> WordMatchEnd(p.lit, s, i)
      [] p.re = "plural" -> PluralMatchEnd(p.lit, s, i)
      [] p.re = "level" -> LevelMatchEnd(s, i)
      [] p.re = "words" -> WordsMatchEnd(p.lits, s, i)

\* re.sub(p, repl, s): the leftmost non-overlapping matches, from i on.
RECURSIVE SubFrom(_, _, _, _)
SubFrom(p, repl, s, i) ==
    IF i > Len(s) THEN <<>>
    ELSE LET e == MatchEnd(p, s, i)
         IN IF e = 0 THEN <<s[i]>> \o SubFrom(p, repl, s, i + 1)
            ELSE repl \o SubFrom(p, repl, s, e + 1)

re_sub(p, repl, s) == SubFrom(p, repl, s, 1)

\* re.sub(r'[^\w\s]', ' ', s)
RemoveSpecial(s) ==
    [k \in 1..Len(s) |-> IF IsWordChar(s[k]) \/ IsSpaceChar(s[k]) THEN s[k] ELSE " "]

\* re.sub(r'\s+', ' ', s)
RECURSIVE CollapseFrom(_, _)
CollapseFrom(s, i) ==
    IF i > Len(s) THEN <<>>
    ELSE IF IsSpaceChar(s[i]) THEN <<" ">> \o CollapseFrom(s, SpaceRunEnd(s, i) + 1)
    ELSE <<s[i]>> \o CollapseFrom(s, i + 1)

\* str.strip()
RECURSIVE strip(_)
strip(s) ==
    IF s = <<>> THEN s
    ELSE IF IsSpaceChar(s[1]) THEN strip(Tail(s))
    ELSE IF IsSpaceChar(s[Len(s)]) THEN strip(SubSeq(s, 1, Len(s) - 1))
    ELSE s

(***************************************************************************)
(* difflib.SequenceMatcher(None, a, b).ratio(), as similarity_ratio calls  *)
(* it: no junk predicate, and the automatic junk heuristic only acts on a  *)
(* second sequence of 200 characters or more, beyond the model's strings.  *)
(* Positions are 0-based and ranges half-open, as in difflib.              *)
(***************************************************************************)
\* Length of the common run of a[i:ahi] and b[j:bhi] that starts at (i, j).
RECURSIVE CommonRun(_, _, _, _, _, _)
CommonRun(a, b, i, j, ahi, bhi) ==
    IF i < ahi /\ j < bhi /\ a[i + 1] = b[j + 1]
    THEN 1 + CommonRun(a, b, i + 1, j + 1, ahi, bhi)
    ELSE 0

SetMax(S) == CHOOSE x \in S : \A y \in S : y <= x
SetMin(S) == CHOOSE x \in S : \A y \in S : x <= y

\* find_longest_match(alo, ahi, blo, bhi): the longest matching block of a[alo:ahi]
\* and b[blo:bhi]; of the longest blocks the one that starts earliest in a, and of
\* those the one that starts earliest in b.  [i, j, size], size 0 when none.
find_longest_match(a, b, alo, ahi, blo, bhi) ==
    LET starts == {p \in (alo..(ahi - 1)) \X (blo..(bhi - 1)) : a[p[1] + 1] = b[p[2] + 1]}
        runs == {[i |-> p[1], j |-> p[2], size |-> CommonRun(a, b, p[1], p[2], ahi, bhi)] :
                    p \in starts}
    IN IF starts = {} THEN [i |-> alo, j |-> blo, size |-> 0]
       ELSE LET best == SetMax({r.size : r \in runs})
                besti == SetMin({r.i : r \in {q \in runs : q.size = best}})
                bestj == SetMin({r.j : r \in {q \in runs : q.size = best /\ q.i = besti}})
            IN [i |-> besti, j |-> bestj, size |-> best]

\* get_matching_blocks: the sum of the sizes of the blocks found by taking the
\* longest match and recursing on the pieces to its left and to its right.
RECURSIVE MatchedChars(_, _, _, _, _, _)
MatchedChars(a, b, alo, ahi, blo, bhi) ==
    LET x == find_longest_match(a, b, alo, ahi, blo, bhi)
    IN IF x.size = 0 THEN 0
       ELSE x.size
            + (IF alo < x.i /\ blo < x.j
               THEN MatchedChars(a, b, alo, x.i, blo, x.j) ELSE 0)
            + (IF x.i + x.size < ahi /\ x.j + x.size < bhi
               THEN MatchedChars(a, b, x.i + x.size, ahi, x.j + x.size, bhi) ELSE 0)

\* A ratio is the fraction num/den; difflib returns 1.0 for two empty strings.
Ratio(num, den) == [num |-> num, den |-> den]

\* ratio(): 2.0 * matches / (len(a) + len(b))
sequence_ratio(a, b) ==
    IF Len(a) + Len(b) = 0 THEN Ratio(1, 1)
    ELSE Ratio(2 * MatchedChars(a, b, 0, Len(a), 0, Len(b)), Len(a) + Len(b))

\* RatioAbove with the comparison turned round (a fault: < for >).
RatioBelow(r, pct) == r.num * 100 < pct * r.den

\* RatioAbove with >= for > (a fault: a ratio equal to the limit passes).
RatioAtLeast(r, pct) == r.num * 100 >= pct * r.den

\* r > pct/100.  The floats compare as the fractions do: 2.0*m/n is the double
\* nearest to the fraction and so is the literal, and two distinct fractions with
\* denominators this small are far more than one rounding apart.
RatioAbove(r, pct) == r.num * 100 > pct * r.den

RatioEq(r1, r2) == r1.num * r2.den = r2.num * r1.den

(***************************************************************************)
(* DataNormaliser.__init__: the configuration tables                       *)
(***************************************************************************)
category_patterns ==
    [college |-> << [re |-> "word", lit |-> <<"c", "o", "l", "l", "e", "g", "e">>,
                     repl |-> <<"c", "o", "l", "l", "e", "g", "e">>],
                    [re |-> "word", lit |-> <<"c", "a", "m", "p", "u", "s">>,
                     repl |-> <<>>] >>,
     subject |-> << [re |-> "level", lit |-> LevelLit, repl |-> <<>>],
                    [re |-> "word", lit |-> <<"b", "t", "e", "c">>, repl |-> <<>>],
                    [re |-> "plural", lit |-> <<"a", "-", "l", "e", "v", "e", "l">>,
                     repl |-> <<>>],
                    [re |-> "plural", lit |-> <<"t", "-", "l", "e", "v", "e", "l">>,
                     repl |-> <<>>] >>]

\* for pattern, replacement in patterns: text = re.sub(pattern, replacement, text)
RECURSIVE ApplyPatterns(_, _, _)
ApplyPatterns(patterns, k, s) ==
    IF k > Len(patterns) THEN s
    ELSE ApplyPatterns(patterns, k + 1, re_sub(patterns[k], patterns[k].repl, s))

(***************************************************************************)
(* DataNormaliser.clean_text                                               *)
(***************************************************************************)
CleanStages(text_s, cat) ==
    LET unredacted == re_sub([re |-> "redacted", lit |-> RedactedOpen], <<>>, text_s)
        lowered == lower(unredacted)
        patterned == IF cat # "none" /\ cat \in DOMAIN category_patterns
                     THEN ApplyPatterns(category_patterns[cat], 1, lowered)
                     ELSE lowered
        unspecial == RemoveSpecial(patterned)
    IN strip(CollapseFrom(unspecial, 1))

clean_text(val, cat) ==
    IF ~Truthy(val) \/ ~isinstance_str(val) THEN Unknown
    ELSE CleanStages(val.s, cat)

(***************************************************************************)
(* Display formatting: ' '.join(word.capitalize() for word in s.split())   *)
(***************************************************************************)
\* str.split(): the maximal runs of non-whitespace characters, from i on.
RECURSIVE WordRunEnd(_, _)
WordRunEnd(s, i) ==
    IF i <= Len(s) /\ ~IsSpaceChar(s[i]) THEN WordRunEnd(s, i + 1) ELSE i - 1

RECURSIVE SplitFrom(_, _)
SplitFrom(s, i) ==
    IF i > Len(s) THEN <<>>
    ELSE IF IsSpaceChar(s[i]) THEN SplitFrom(s, i + 1)
    ELSE LET e == WordRunEnd(s, i)
         IN <<SubSeq(s, i, e)>> \o SplitFrom(s, e + 1)

split(s) == SplitFrom(s, 1)

\* str.capitalize(): the first character upper-cased, the others lower-cased.
capitalize(w) ==
    [k \in 1..Len(w) |-> IF k = 1 THEN UpperChar(w[k]) ELSE LowerChar(w[k])]

\* ' '.join(words)
RECURSIVE JoinWords(_, _)
JoinWords(words, k) ==
    IF k > Len(words) THEN <<>>
    ELSE IF k = Len(words) THEN words[k]
    ELSE words[k] \o <<" ">> \o JoinWords(words, k + 1)

display_name(s) ==
    LET words == split(s)
    IN JoinWords([k \in 1..Len(words) |-> capitalize(words[k])], 1)

(***************************************************************************)
(* The two normalisers: dashboard/data_normaliser.py ("staff") and         *)
(* dashboard/student_data_normaliser.py ("student")                        *)
(***************************************************************************)
Variants == {"staff", "student"}

\* self.synonym_mappings['subject'], in the dict's insertion order.
StaffSynonyms ==
    << [canonical |-> <<"g", "r", "a", "p", "h", "i", "c", " ", "d", "e", "s", "i", "g", "n">>,
        synonyms |-> << <<"g", "r", "a", "p", "h", "i", "c", "s">>,
                        <<"g", "r", "a", "p", "h", "i", "c", "s", " ", "a", "n", "d", " ", "p", "h", "o", "t", "o", "g", "r", "a", "p", "h", "y">>,
                        <<"g", "r", "a", "p", "h", "i", "c", " ", "d", "e", "s", "i", "g", "n", " ", "v", "i", "s", "u", "a", "l", " ", "c", "o", "m", "m", "u", "n", "i", "c", "a", "t", "i", "o", "n", "s">> >>],
       [canonical |-> <<"i", "n", "f", "o", "r", "m", "a", "t", "i", "o", "n", " ", "t", "e", "c", "h", "n", "o", "l", "o", "g", "y">>,
        synonyms |-> << <<"i", "t">>,
                        <<"b", "t", "e", "c", " ", "i", "t">> >>],
       [canonical |-> <<"b", "i", "o", "l", "o", "g", "y", " ", "c", "h", "e", "m", "i", "s", "t", "r", "y", " ", "m", "a", "t", "h", "e", "m", "a", "t", "i", "c", "s">>,
        synonyms |-> << <<"b", "i", "o", "l", "o", "g", "y", " ", "c", "h", "e", "m", "i", "s", "t", "r", "y", " ", "m", "a", "t", "h", "s">>,
                        <<"c", "h", "e", "m", "i", "s", "t", "r", "y", " ", "b", "i", "o", "l", "o", "g", "y", " ", "m", "a", "t", "h", "s">> >>],
       [canonical |-> <<"a", "n", "i", "m", "a", "l", " ", "m", "a", "n", "a", "g", "e", "m", "e", "n", "t">>,
        synonyms |-> << <<"a", "n", "i", "m", "a", "l", " ", "c", "a", "r", "e">>,
                        <<"a", "n", "i", "m", "a", "l", " ", "w", "e", "l", "f", "a", "r", "e">>,
                        <<"a", "n", "i", "m", "a", "l", " ", "c", "a", "r", "e", " ", "a", "n", "d", " ", "w", "e", "l", "f", "a", "r", "e">> >>],
       [canonical |-> <<"c", "o", "n", "s", "t", "r", "u", "c", "t", "i", "o", "n">>,
        synonyms |-> << <<"m", "u", "l", "t", "i", "-", "t", "r", "a", "d", "e", " ", "c", "o", "n", "s", "t", "r", "u", "c", "t", "i", "o", "n">>,
                        <<"m", "u", "l", "t", "i", " ", "t", "r", "a", "d", "e">> >>] >>

StudentSynonyms ==
    << [canonical |-> <<"g", "r", "a", "p", "h", "i", "c", " ", "d", "e", "s", "i", "g", "n">>,
        synonyms |-> << <<"g", "r", "a", "p", "h", "i", "c", "s">>,
                        <<"g", "r", "a", "p", "h", "i", "c", "s", " ", "a", "n", "d", " ", "p", "h", "o", "t", "o", "g", "r", "a", "p", "h", "y">>,
                        <<"g", "r", "a", "p", "h", "i", "c", " ", "d", "e", "s", "i", "g", "n", " ", "v", "i", "s", "u", "a", "l", " ", "c", "o", "m", "m", "u", "n", "i", "c", "a", "t", "i", "o", "n", "s">> >>],
       [canonical |-> <<"i", "n", "f", "o", "r", "m", "a", "t", "i", "o", "n", " ", "t", "e", "c", "h", "n", "o", "l", "o", "g", "y">>,
        synonyms |-> << <<"i", "t">>,
                        <<"b", "t", "e", "c", " ", "i", "t">> >>],
       [canonical |-> <<"a", "n", "i", "m", "a", "l", " ", "m", "a", "n", "a", "g", "e", "m", "e", "n", "t">>,
        synonyms |-> << <<"a", "n", "i", "m", "a", "l", " ", "c", "a", "r", "e">>,
                        <<"a", "n", "i", "m", "a", "l", " ", "w", "e", "l", "f", "a", "r", "e">>,
                        <<"a", "n", "i", "m", "a", "l", " ", "c", "a", "r", "e", " ", "a", "n", "d", " ", "w", "e", "l", "f", "a", "r", "e">> >>],
       [canonical |-> <<"c", "o", "n", "s", "t", "r", "u", "c", "t", "i", "o", "n">>,
        synonyms |-> << <<"m", "u", "l", "t", "i", "-", "t", "r", "a", "d", "e", " ", "c", "o", "n", "s", "t", "r", "u", "c", "t", "i", "o", "n">>,
                        <<"m", "u", "l", "t", "i", " ", "t", "r", "a", "d", "e">> >>],
       [canonical |-> <<"m", "a", "t", "h", "e", "m", "a", "t", "i", "c", "s">>,
        synonyms |-> << <<"m", "a", "t", "h", "s">>,
                        <<"f", "u", "r", "t", "h", "e", "r", " ", "m", "a", "t", "h", "s">>,
                        <<"f", "u", "r", "t", "h", "e", "r", " ", "m", "a", "t", "h", "e", "m", "a", "t", "i", "c", "s">> >>],
       [canonical |-> <<"b", "i", "o", "l", "o", "g", "y">>,
        synonyms |-> << <<"b", "i", "o">> >>],
       [canonical |-> <<"c", "h", "e", "m", "i", "s", "t", "r", "y">>,
        synonyms |-> << <<"c", "h", "e", "m">> >>],
       [canonical |-> <<"p", "s", "y", "c", "h", "o", "l", "o", "g", "y">>,
        synonyms |-> << <<"p", "s", "y", "c", "h">> >>] >>

\* self.synonym_mappings of the variant: only 'subject' is registered.
synonym_mappings(which) ==
    [subject |-> IF which = "staff" THEN StaffSynonyms ELSE StudentSynonyms]

(***************************************************************************)
(* student_data_normaliser.DataNormaliser.split_combined_subjects          *)
(***************************************************************************)
subjects ==
    << <<"m", "a", "t", "h", "e", "m", "a", "t", "i", "c", "s">>,
       <<"m", "a", "t", "h", "s">>,
       <<"f", "u", "r", "t", "h", "e", "r", " ", "m", "a", "t", "h", "s">>,
       <<"f", "u", "r", "t", "h", "e", "r", " ", "m", "a", "t", "h", "e", "m", "a", "t", "i", "c", "s">>,
       <<"b", "i", "o", "l", "o", "g", "y">>,
       <<"c", "h", "e", "m", "i", "s", "t", "r", "y">>,
       <<"p", "h", "y", "s", "i", "c", "s">>,
       <<"p", "s", "y", "c", "h", "o", "l", "o", "g", "y">>,
       <<"s", "o", "c", "i", "o", "l", "o", "g", "y">>,
       <<"e", "n", "g", "l", "i", "s", "h">>,
       <<"h", "i", "s", "t", "o", "r", "y">>,
       <<"g", "e", "o", "g", "r", "a", "p", "h", "y">>,
       <<"c", "o", "m", "p", "u", "t", "e", "r", " ", "s", "c", "i", "e", "n", "c", "e">>,
       <<"b", "u", "s", "i", "n", "e", "s", "s">>,
       <<"e", "c", "o", "n", "o", "m", "i", "c", "s">>,
       <<"a", "r", "t">>,
       <<"d", "e", "s", "i", "g", "n">>,
       <<"m", "u", "s", "i", "c">> >>

AndLit == <<"a", "n", "d">>

\* sub in s
Contains(sub, s) == \E i \in 1..(Len(s) + 1) : HasAt(s, i, sub)

\* r'\s+and\s+|\s+&\s+|,\s*' at i: the last index of the match, or 0.
SeparatorMatchEnd(s, i) ==
    IF i > Len(s) THEN 0
    ELSE IF IsSpaceChar(s[i]) THEN
        LET sp == SpaceRunEnd(s, i)
        IN IF HasAt(s, sp + 1, AndLit) /\ SpaceRunEnd(s, sp + 4) >= sp + 4
           THEN SpaceRunEnd(s, sp + 4)
           ELSE IF HasAt(s, sp + 1, <<"&">>) /\ SpaceRunEnd(s, sp + 2) >= sp + 2
           THEN SpaceRunEnd(s, sp + 2)
           ELSE 0
    ELSE IF s[i] = "," THEN SpaceRunEnd(s, i + 1)
    ELSE 0

\* re.split(separator, s): piece is the text collected since the last separator.
RECURSIVE ReSplitFrom(_, _, _)
ReSplitFrom(s, i, piece) ==
    IF i > Len(s) THEN <<piece>>
    ELSE LET e == SeparatorMatchEnd(s, i)
         IN IF e = 0 THEN ReSplitFrom(s, i + 1, Append(piece, s[i]))
            ELSE <<piece>> \o ReSplitFrom(s, e + 1, <<>>)

\* for subject in subjects: if subject in value_lower and not any(subject in word
\* for word in words): words.append(subject)
RECURSIVE AddMissingSubjects(_, _, _)
AddMissingSubjects(value_lower, words, k) ==
    IF k > Len(subjects) THEN words
    ELSE IF /\ Contains(subjects[k], value_lower)
            /\ ~\E w \in 1..Len(words) : Contains(subjects[k], words[w])
         THEN AddMissingSubjects(value_lower, Append(words, subjects[k]), k + 1)
         ELSE AddMissingSubjects(value_lower, words, k + 1)

\* for word in words: if word and word.strip(): result.append(word.strip())
RECURSIVE StrippedWords(_, _)
StrippedWords(words, k) ==
    IF k > Len(words) THEN <<>>
    ELSE IF strip(words[k]) # <<>> THEN <<strip(words[k])>> \o StrippedWords(words, k + 1)
    ELSE StrippedWords(words, k + 1)

\* What one value contributes to the result list.
split_value(value) ==
    IF value = <<>> \/ value = Unknown THEN <<value>>
    ELSE LET value_lower == lower(value)
             contains_multiple ==
                 \/ Contains(AndLit, value_lower)
                 \/ Cardinality({k \in 1..Len(subjects) :
                                    Contains(subjects[k], value_lower)}) > 1
         IN IF contains_multiple
            THEN StrippedWords(
                     AddMissingSubjects(value_lower, ReSplitFrom(value_lower, 1, <<>>), 1), 1)
            ELSE <<value>>

RECURSIVE SplitAll(_, _)
SplitAll(values, k) ==
    IF k > Len(values) THEN <<>>
    ELSE split_value(values[k]) \o SplitAll(values, k + 1)

split_combined_subjects(values, cat) ==
    IF cat # "subject" THEN values ELSE SplitAll(values, 1)

(***************************************************************************)
(* Inputs of the clustering calls                                          *)
(***************************************************************************)
MaxBatch == 3

DefaultThreshold == 85

\* The thresholds tried: the default and a stricter one.
Thresholds == {DefaultThreshold, 90}

ClusterCategories == {"none", "college", "subject"}

CollegePool ==
    { PyNone, PyStr(<<"F", "a", "r", "e", "h", "a", "m">>),
      PyStr(<<"F", "a", "r", "e", "h", "a", "m", " ", "C", "a", "m", "p", "u", "s">>),
      PyStr(<<"F", "a", "r", "n", "h", "a", "m">>),
      PyStr(<<"F", "a", "r", "n", "a", "m">>) }

SubjectPool ==
    { PyNone, PyStr(<<"A", "r", "t", " ", "a", "n", "d", " ", "I", "T">>),
      PyStr(<<"I", "T">>),
      PyStr(<<"B", "T", "E", "C", " ", "I", "T">>),
      PyStr(<<"M", "a", "t", "h", "s">>) }

RawPool(cat) == IF cat = "subject" THEN SubjectPool ELSE CollegePool

\* What a document holds at the field: nothing, None, '' or a string.
Absent == [kind |-> "absent", s |-> <<>>, n |-> 0, d |-> <<>>]

FieldPool ==
    { Absent, PyNone, PyStr(<<>>), PyStr(<<"U", "n", "k", "n", "o", "w">>),
      PyStr(<<"F", "a", "r", "e", "h", "a", "m">>) }

Fields ==
    { [path |-> <<"college">>, cat |-> "college"],
      [path |-> <<"responses", "about_user", "study_field">>, cat |-> "subject"] }

\* The document that holds held at path (and lacks the last key when held is Absent).
RECURSIVE MakeDoc(_, _, _)
MakeDoc(path, k, held) ==
    IF k = Len(path)
    THEN IF held = Absent THEN PyDict(<<>>) ELSE PyDict(<< <<path[k], held>> >>)
    ELSE PyDict(<< <<path[k], MakeDoc(path, k + 1, held)>> >>)

RECURSIVE SeqsUpTo(_, _)
SeqsUpTo(S, n) ==
    IF n = 0 THEN {<<>>}
    ELSE LET shorter == SeqsUpTo(S, n - 1)
         IN shorter \cup {Append(q, x) : q \in {t \in shorter : Len(t) = n - 1}, x \in S}

Range(q) == {q[k] : k \in 1..Len(q)}

(***************************************************************************)
(* DataNormaliser.similarity_ratio                                         *)
(***************************************************************************)
similarity_ratio(a, b) == sequence_ratio(a, b)

(***************************************************************************)
(* DataNormaliser.apply_direct_mappings                                    *)
(***************************************************************************)
DirectThreshold == 90

\* any(self.similarity_ratio(value, syn) > 0.9 for syn in synonyms)
AnySynonymClose(value, synonyms) ==
    \E k \in 1..Len(synonyms) :
        RatioAbove(similarity_ratio(value, synonyms[k]), DirectThreshold)

\* The body of the loop for one value: the canonical of the first table entry
\* with a close synonym, else the value itself.
map_value(table, value) ==
    LET hits == {k \in 1..Len(table) : AnySynonymClose(value, table[k].synonyms)}
    IN IF hits = {} THEN value ELSE table[SetMin(hits)].canonical

\* apply_direct_mappings with the flag "mapped" set once before the loop instead
\* of once per value (a fault: after the first mapped value, the values that
\* match no synonym are dropped).
apply_direct_mappings_sticky(which, values, cat) ==
    IF cat = "none" \/ cat \notin DOMAIN synonym_mappings(which) THEN values
    ELSE LET table == synonym_mappings(which)[cat]
             Hit(k) == map_value(table, values[k]) # values[k]
             kept == {k \in 1..Len(values) :
                         Hit(k) \/ \A h \in 1..(k - 1) : ~Hit(h)}
             Nth(m) == CHOOSE k \in kept : Cardinality({h \in kept : h < k}) = m - 1
         IN [m \in 1..Cardinality(kept) |-> map_value(table, values[Nth(m)])]

apply_direct_mappings(which, values, cat) ==
    IF cat = "none" \/ cat \notin DOMAIN synonym_mappings(which) THEN values
    ELSE [k \in 1..Len(values) |-> map_value(synonym_mappings(which)[cat], values[k])]

(***************************************************************************)
(* DataNormaliser.cluster_similar_values: the steps of its body            *)
(***************************************************************************)
\* value_counts[v]
CountOf(values, v) == Cardinality({k \in 1..Len(values) : values[k] = v})

FirstIndex(values, v) == SetMin({k \in 1..Len(values) : values[k] = v})

\* list(pd.Series(values).value_counts().index): the distinct values by descending
\* count; values of equal count keep the order of their first appearance.
value_counts_index(values) ==
    LET distinct == Range(values)
        Before(v, w) ==
            \/ CountOf(values, v) > CountOf(values, w)
            \/ /\ CountOf(values, v) = CountOf(values, w)
               /\ FirstIndex(values, v) < FirstIndex(values, w)
    IN [m \in 1..Cardinality(distinct) |->
           CHOOSE v \in distinct : Cardinality({w \in distinct : Before(w, v)}) = m - 1]

\* The inner loop taking nothing (a fault: every value stays alone, whatever
\* the order of the batch).
GrowClusterAlone(val1, sorted, j, cluster, asg, thr) ==
    [cluster |-> cluster, assigned |-> asg]

\* The inner loop without the similarity test (a fault: the seed takes every
\* value that is not assigned yet).
RECURSIVE GrowClusterAll(_, _, _, _, _, _)
GrowClusterAll(val1, sorted, j, cluster, asg, thr) ==
    IF j > Len(sorted) THEN [cluster |-> cluster, assigned |-> asg]
    ELSE LET val2 == sorted[j]
         IN IF val2 \in asg \/ val2 = Unknown
            THEN GrowClusterAll(val1, sorted, j + 1, cluster, asg, thr)
            ELSE GrowClusterAll(val1, sorted, j + 1, Append(cluster, val2),
                                asg \cup {val2}, thr)

\* The inner loop without the test "val2 in assigned" (a fault: a seed takes
\* values that already belong to an earlier cluster).
RECURSIVE GrowClusterSteal(_, _, _, _, _, _)
GrowClusterSteal(val1, sorted, j, cluster, asg, thr) ==
    IF j > Len(sorted) THEN [cluster |-> cluster, assigned |-> asg]
    ELSE LET val2 == sorted[j]
         IN IF val2 = val1 \/ val2 = Unknown
            THEN GrowClusterSteal(val1, sorted, j + 1, cluster, asg, thr)
            ELSE IF RatioAbove(similarity_ratio(val1, val2), thr)
            THEN GrowClusterSteal(val1, sorted, j + 1, Append(cluster, val2),
                                  asg \cup {val2}, thr)
            ELSE GrowClusterSteal(val1, sorted, j + 1, cluster, asg, thr)

\* The inner loop without assigned.add(val2) (a fault: a value that joined a
\* cluster can still open or join another).
RECURSIVE GrowClusterNoMark(_, _, _, _, _, _)
GrowClusterNoMark(val1, sorted, j, cluster, asg, thr) ==
    IF j > Len(sorted) THEN [cluster |-> cluster, assigned |-> asg]
    ELSE LET val2 == sorted[j]
         IN IF val2 \in asg \/ val2 = Unknown
            THEN GrowClusterNoMark(val1, sorted, j + 1, cluster, asg, thr)
            ELSE IF RatioAbove(similarity_ratio(val1, val2), thr)
            THEN GrowClusterNoMark(val1, sorted, j + 1, Append(cluster, val2), asg, thr)
            ELSE GrowClusterNoMark(val1, sorted, j + 1, cluster, asg, thr)

\* The inner loop comparing val2 with the member added last instead of with the
\* seed (a fault: clusters grow by chaining).
RECURSIVE GrowClusterChained(_, _, _, _, _, _)
GrowClusterChained(val1, sorted, j, cluster, asg, thr) ==
    IF j > Len(sorted) THEN [cluster |-> cluster, assigned |-> asg]
    ELSE LET val2 == sorted[j]
         IN IF val2 \in asg \/ val2 = Unknown
            THEN GrowClusterChained(val1, sorted, j + 1, cluster, asg, thr)
            ELSE IF RatioAbove(similarity_ratio(cluster[Len(cluster)], val2), thr)
            THEN GrowClusterChained(val1, sorted, j + 1, Append(cluster, val2),
                                    asg \cup {val2}, thr)
            ELSE GrowClusterChained(val1, sorted, j + 1, cluster, asg, thr)

\* The inner loop "for val2 in sorted_values" from position j on.
RECURSIVE GrowCluster(_, _, _, _, _, _)
GrowCluster(val1, sorted, j, cluster, asg, thr) ==
    IF j > Len(sorted) THEN [cluster |-> cluster, assigned |-> asg]
    ELSE LET val2 == sorted[j]
         IN IF val2 \in asg \/ val2 = Unknown
            THEN GrowCluster(val1, sorted, j + 1, cluster, asg, thr)
            ELSE IF RatioAbove(similarity_ratio(val1, val2), thr)
            THEN GrowCluster(val1, sorted, j + 1, Append(cluster, val2),
                             asg \cup {val2}, thr)
            ELSE GrowCluster(val1, sorted, j + 1, cluster, asg, thr)

\* canonical_of taking the last of the members that tie for the highest count
\* (a fault: the seed loses a tie).
canonical_of_last(cluster, values) ==
    LET high == SetMax({CountOf(values, cluster[k]) : k \in 1..Len(cluster)})
    IN cluster[SetMax({k \in 1..Len(cluster) : CountOf(values, cluster[k]) = high})]

\* canonical_of with min for max (a fault: the least frequent member is chosen).
canonical_of_min(cluster, values) ==
    LET low == SetMin({CountOf(values, cluster[k]) : k \in 1..Len(cluster)})
    IN cluster[SetMin({k \in 1..Len(cluster) : CountOf(values, cluster[k]) = low})]

\* max(cluster_counts, key=cluster_counts.get): the first member, in the order of
\* insertion, whose count is the highest.
canonical_of(cluster, values) ==
    LET top == SetMax({CountOf(values, cluster[k]) : k \in 1..Len(cluster)})
    IN cluster[SetMin({k \in 1..Len(cluster) : CountOf(values, cluster[k]) = top})]

\* The mapping dict after the loop over the clusters: a value takes the display
\* name of the last cluster that lists it.
build_mapping(cls, values) ==
    LET members == UNION {Range(cls[k]) : k \in 1..Len(cls)}
        LastWith(v) == SetMax({k \in 1..Len(cls) : v \in Range(cls[k])})
    IN [v \in members |-> display_name(canonical_of(cls[LastWith(v)], values))]

\* canonical for position k of value_list
canonical_at(k, cleaned_list, map) ==
    IF cleaned_list[k] = Unknown THEN Unknown
    ELSE IF cleaned_list[k] \in DOMAIN map THEN map[cleaned_list[k]]
    ELSE display_name(cleaned_list[k])

\* The positions of value_list the last loop handles: i < len(cleaned_values).
HandledPositions(originals, cleaned_list) ==
    {k \in 1..Len(originals) : k <= Len(cleaned_list)}

\* original_to_canonical: the student module formats the label once more.
build_original_to_canonical(which, originals, cleaned_list, map) ==
    LET handled == HandledPositions(originals, cleaned_list)
        Last(o) == SetMax({k \in handled : originals[k] = o})
        Label(k) == IF which = "student"
                    THEN display_name(canonical_at(k, cleaned_list, map))
                    ELSE canonical_at(k, cleaned_list, map)
    IN [o \in {originals[k] : k \in handled} |-> Label(Last(o))]

RECURSIVE OriginalsUnder(_, _, _, _, _)
OriginalsUnder(label, k, originals, cleaned_list, map) ==
    IF k > Len(originals) \/ k > Len(cleaned_list) THEN <<>>
    ELSE IF canonical_at(k, cleaned_list, map) = label
    THEN <<originals[k]>> \o OriginalsUnder(label, k + 1, originals, cleaned_list, map)
    ELSE OriginalsUnder(label, k + 1, originals, cleaned_list, map)

\* cluster_info: canonical -> the originals appended under it, in order.
build_cluster_info(originals, cleaned_list, map) ==
    LET handled == HandledPositions(originals, cleaned_list)
    IN [label \in {canonical_at(k, cleaned_list, map) : k \in handled} |->
           OriginalsUnder(label, 1, originals, cleaned_list, map)]

(***************************************************************************)
(* DataNormaliser.normalise_field_values: the extraction of the values     *)
(***************************************************************************)
HasKey(items, key) == \E k \in 1..Len(items) : items[k][1] = key

GetItem(items, key) == items[CHOOSE k \in 1..Len(items) : items[k][1] = key][2]

\* WalkPath that keeps the value reached when a segment cannot be followed (a
\* fault: "value = None" is missing before the break).
RECURSIVE WalkPathKeep(_, _, _)
WalkPathKeep(value, path, k) ==
    IF k > Len(path) THEN value
    ELSE IF value.kind = "dict" /\ HasKey(value.d, path[k])
    THEN WalkPathKeep(GetItem(value.d, path[k]), path, k + 1)
    ELSE value

\* The loop over field_path.split('.'), from segment k on.
RECURSIVE WalkPath(_, _, _)
WalkPath(value, path, k) ==
    IF k > Len(path) THEN value
    ELSE IF value.kind = "dict" /\ HasKey(value.d, path[k])
    THEN WalkPath(GetItem(value.d, path[k]), path, k + 1)
    ELSE PyNone

\* values.append(value if value else "Unknown")
extract_value(doc, path) ==
    LET value == WalkPath(doc, path, 1)
    IN IF Truthy(value) THEN value ELSE PyStr(Unknown)

\* dict_get that ignores the dict (a fault: every document is labelled "Unknown").
dict_get_default(map, key, default) == default

\* mapping.get(val, "Unknown")
dict_get(map, key, default) == IF key \in DOMAIN map THEN map[key] ELSE default

(***************************************************************************)
(* cluster_similar_values and normalise_field_values as single calls, for  *)
(* the callers that use what they return                                   *)
(***************************************************************************)
\* The outer loop "for i, val1 in enumerate(sorted_values)" from position i on.
RECURSIVE ClusterFrom(_, _, _, _, _)
ClusterFrom(sorted, i, cls, asg, thr) ==
    IF i > Len(sorted) THEN cls
    ELSE LET val1 == sorted[i]
         IN IF val1 \in asg \/ val1 = Unknown
            THEN ClusterFrom(sorted, i + 1, cls, asg, thr)
            ELSE LET grown == GrowCluster(val1, sorted, 1, <<val1>>,
                                          asg \cup {val1}, thr)
                 IN ClusterFrom(sorted, i + 1, Append(cls, grown.cluster),
                                grown.assigned, thr)

\* Body applied to the value of e, which is computed once.
Bind(e, Body(_)) == CHOOSE r \in {Body(x) : x \in {e}} : TRUE

\* What the call returns, or raised when it ends in a TypeError.
cluster_similar_values(which, values, cat, thr) ==
    LET first_pass == [k \in 1..Len(values) |-> clean_text(values[k], cat)]
        split_list == IF which = "student" /\ cat = "subject"
                      THEN split_combined_subjects(first_pass, cat)
                      ELSE first_pass
        Returned(cleaned_list, map) ==
            IF \E k \in HandledPositions(values, cleaned_list) :
                   values[k].kind \in {"dict", "list"}
            THEN [raised |-> TRUE, original_to_canonical |-> <<>>,
                  cluster_info |-> <<>>]
            ELSE [raised |-> FALSE,
                  original_to_canonical |->
                      build_original_to_canonical(which, values, cleaned_list, map),
                  cluster_info |-> build_cluster_info(values, cleaned_list, map)]
    IN IF values = <<>>
       THEN [raised |-> FALSE, original_to_canonical |-> <<>>, cluster_info |-> <<>>]
       ELSE Bind(apply_direct_mappings(which, split_list, cat),
                 LAMBDA cleaned_list :
                   Bind(value_counts_index(cleaned_list),
                        LAMBDA sorted :
                          Bind(ClusterFrom(sorted, 1, <<>>, {}, thr),
                               LAMBDA cls :
                                 Bind(build_mapping(cls, cleaned_list),
                                      LAMBDA map : Returned(cleaned_list, map)))))

normalise_field_values(which, docs, path, cat) ==
    LET Labelled(values, called) ==
            [raised |-> called.raised,
             normalised_values |->
                 IF called.raised THEN <<>>
                 ELSE [k \in 1..Len(values) |->
                          dict_get(called.original_to_canonical, values[k], Unknown)],
             mapping |-> called.original_to_canonical,
             cluster_info |-> called.cluster_info]
    IN Bind([k \in 1..Len(docs) |-> extract_value(docs[k], path)],
            LAMBDA values :
              Bind(cluster_similar_values(which, values, cat, DefaultThreshold),
                   LAMBDA called : Labelled(values, called)))

(***************************************************************************)
(* generate_stats_with_normalised_values                                   *)
(***************************************************************************)
\* The text of a key, for "key in v" when v is a string.
KeyText(key) ==
    CASE key = "responses" -> <<"r", "e", "s", "p", "o", "n", "s", "e", "s">>
      [] key = "about_user" -> <<"a", "b", "o", "u", "t", "_", "u", "s", "e", "r">>
      [] key = "study_field" -> <<"s", "t", "u", "d", "y", "_", "f", "i", "e", "l", "d">>
      [] key = "gender" -> <<"g", "e", "n", "d", "e", "r">>
      [] key = "over_25" -> <<"o", "v", "e", "r", "_", "2", "5">>

\* key in v: "yes", "no", or "raise" (TypeError: v is None or a number).
PyIn(key, v) ==
    CASE v.kind = "dict" -> IF HasKey(v.d, key) THEN "yes" ELSE "no"
      [] v.kind = "str" -> IF Contains(KeyText(key), v.s) THEN "yes" ELSE "no"
      [] v.kind = "list" ->
            IF \E k \in 1..Len(v.d) : v.d[k] = PyStr(KeyText(key)) THEN "yes" ELSE "no"
      [] OTHER -> "raise"

\* "k1 in v and k2 in v[k1] and ...", and then v[k1][k2]..., from segment k on.
\* v[key] raises when v is a string or a list.
RECURSIVE InPath(_, _, _)
InPath(v, path, k) ==
    IF k > Len(path) THEN [raised |-> FALSE, found |-> TRUE, value |-> v]
    ELSE LET answer == PyIn(path[k], v)
         IN IF answer = "raise" \/ (answer = "yes" /\ v.kind # "dict")
            THEN [raised |-> TRUE, found |-> FALSE, value |-> PyNone]
            ELSE IF answer = "no"
            THEN [raised |-> FALSE, found |-> FALSE, value |-> PyNone]
            ELSE InPath(GetItem(v.d, path[k]), path, k + 1)

StudyFieldPath == <<"responses", "about_user", "study_field">>

\* doc.get(key, default)
doc_get(doc, key, default) ==
    IF HasKey(doc.d, key) THEN GetItem(doc.d, key) ELSE default

\* d[key] = value on a dict: the value of an existing key is replaced in place, a
\* new key is appended.
SetItem(items, key, value) ==
    IF HasKey(items, key)
    THEN [k \in 1..Len(items) |-> IF items[k][1] = key THEN <<key, value>> ELSE items[k]]
    ELSE Append(items, <<key, value>>)

\* Inc that leaves the count of a label it has seen as it is (a fault: only the
\* first document of a label is counted).
IncOnce(counts, label) ==
    IF label \in DOMAIN counts THEN counts
    ELSE [x \in DOMAIN counts \cup {label} |-> IF x = label THEN 1 ELSE counts[x]]

\* counts[label] = counts.get(label, 0) + 1
Inc(counts, label) ==
    IF label \in DOMAIN counts THEN [counts EXCEPT ![label] = @ + 1]
    ELSE [x \in DOMAIN counts \cup {label} |-> IF x = label THEN 1 ELSE counts[x]]

RECURSIVE IncAll(_, _, _)
IncAll(counts, labels, k) ==
    IF k > Len(labels) THEN counts ELSE IncAll(Inc(counts, labels[k]), labels, k + 1)

\* subject_patterns; every pattern is r'\bword\b'.
subject_patterns ==
    << [subject |-> <<"M", "a", "t", "h", "e", "m", "a", "t", "i", "c", "s">>,
        patterns |-> << <<"m", "a", "t", "h", "s">>,
                      <<"m", "a", "t", "h", "e", "m", "a", "t", "i", "c", "s">>,
                      <<"f", "u", "r", "t", "h", "e", "r", " ", "m", "a", "t", "h", "s">> >>],
       [subject |-> <<"B", "i", "o", "l", "o", "g", "y">>,
        patterns |-> << <<"b", "i", "o", "l", "o", "g", "y">>,
                      <<"b", "i", "o">> >>],
       [subject |-> <<"C", "h", "e", "m", "i", "s", "t", "r", "y">>,
        patterns |-> << <<"c", "h", "e", "m", "i", "s", "t", "r", "y">>,
                      <<"c", "h", "e", "m">> >>],
       [subject |-> <<"P", "h", "y", "s", "i", "c", "s">>,
        patterns |-> << <<"p", "h", "y", "s", "i", "c", "s">> >>],
       [subject |-> <<"P", "s", "y", "c", "h", "o", "l", "o", "g", "y">>,
        patterns |-> << <<"p", "s", "y", "c", "h", "o", "l", "o", "g", "y">>,
                      <<"p", "s", "y", "c", "h">> >>],
       [subject |-> <<"E", "n", "g", "l", "i", "s", "h">>,
        patterns |-> << <<"e", "n", "g", "l", "i", "s", "h">> >>],
       [subject |-> <<"C", "o", "m", "p", "u", "t", "e", "r", " ", "S", "c", "i", "e", "n", "c", "e">>,
        patterns |-> << <<"c", "o", "m", "p", "u", "t", "e", "r", " ", "s", "c", "i", "e", "n", "c", "e">>,
                      <<"c", "o", "m", "p", "u", "t", "i", "n", "g">>,
                      <<"I", "T">>,
                      <<"i", "n", "f", "o", "r", "m", "a", "t", "i", "o", "n", " ", "t", "e", "c", "h", "n", "o", "l", "o", "g", "y">> >>],
       [subject |-> <<"B", "u", "s", "i", "n", "e", "s", "s">>,
        patterns |-> << <<"b", "u", "s", "i", "n", "e", "s", "s">>,
                      <<"e", "c", "o", "n", "o", "m", "i", "c", "s">> >>],
       [subject |-> <<"A", "r", "t", " ", "&", " ", "D", "e", "s", "i", "g", "n">>,
        patterns |-> << <<"a", "r", "t">>,
                      <<"d", "e", "s", "i", "g", "n">>,
                      <<"g", "r", "a", "p", "h", "i", "c", "s">>,
                      <<"g", "r", "a", "p", "h", "i", "c", " ", "d", "e", "s", "i", "g", "n">> >>],
       [subject |-> <<"H", "i", "s", "t", "o", "r", "y">>,
        patterns |-> << <<"h", "i", "s", "t", "o", "r", "y">> >>],
       [subject |-> <<"G", "e", "o", "g", "r", "a", "p", "h", "y">>,
        patterns |-> << <<"g", "e", "o", "g", "r", "a", "p", "h", "y">> >>],
       [subject |-> <<"S", "o", "c", "i", "o", "l", "o", "g", "y">>,
        patterns |-> << <<"s", "o", "c", "i", "o", "l", "o", "g", "y">> >>],
       [subject |-> <<"H", "e", "a", "l", "t", "h", " ", "&", " ", "S", "o", "c", "i", "a", "l", " ", "C", "a", "r", "e">>,
        patterns |-> << <<"h", "e", "a", "l", "t", "h">>,
                      <<"s", "o", "c", "i", "a", "l", " ", "c", "a", "r", "e">>,
                      <<"h", "e", "a", "l", "t", "h", "c", "a", "r", "e">> >>],
       [subject |-> <<"E", "n", "g", "i", "n", "e", "e", "r", "i", "n", "g">>,
        patterns |-> << <<"e", "n", "g", "i", "n", "e", "e", "r", "i", "n", "g">> >>],
       [subject |-> <<"M", "e", "d", "i", "a">>,
        patterns |-> << <<"m", "e", "d", "i", "a">>,
                      <<"j", "o", "u", "r", "n", "a", "l", "i", "s", "m">> >>],
       [subject |-> <<"S", "p", "o", "r", "t">>,
        patterns |-> << <<"s", "p", "o", "r", "t">>,
                      <<"p", "e">>,
                      <<"p", "h", "y", "s", "i", "c", "a", "l", " ", "e", "d", "u", "c", "a", "t", "i", "o", "n">> >>],
       [subject |-> <<"A", "n", "i", "m", "a", "l", " ", "M", "a", "n", "a", "g", "e", "m", "e", "n", "t">>,
        patterns |-> << <<"a", "n", "i", "m", "a", "l">> >>] >>

\* course_patterns, in the dict's order.
CourseTypes == << <<"A", "-", "l", "e", "v", "e", "l", "s">>, <<"B", "T", "E", "C", "s">>, <<"A", "p", "p", "r", "e", "n", "t", "i", "c", "e", "s", "h", "i", "p", "s">>, <<"T", "-", "l", "e", "v", "e", "l", "s">> >>

\* re.search(course_patterns[course_type], s)
course_search(course_type, s) ==
    LET LevelsAfter(letters) ==
            \E i \in 1..Len(s) :
                /\ BoundaryAt(s, i)
                /\ s[i] \in letters
                /\ i + 1 <= Len(s)
                /\ (IsSpaceChar(s[i + 1]) \/ s[i + 1] = "-")
                /\ PluralMatchEnd(LevelLit, s, i + 2) # 0
        Plural(lit) == \E i \in 1..Len(s) : PluralMatchEnd(lit, s, i) # 0
    IN CASE course_type = <<"A", "-", "l", "e", "v", "e", "l", "s">> -> LevelsAfter({"a", "A"})
         [] course_type = <<"B", "T", "E", "C", "s">> -> Plural(<<"b", "t", "e", "c">>) \/ Plural(<<"B", "T", "E", "C">>)
         [] course_type = <<"A", "p", "p", "r", "e", "n", "t", "i", "c", "e", "s", "h", "i", "p", "s">> ->
                Plural(<<"a", "p", "p", "r", "e", "n", "t", "i", "c", "e", "s", "h", "i", "p">>) \/ Plural(<<"A", "p", "p", "r", "e", "n", "t", "i", "c", "e", "s", "h", "i", "p">>)
         [] course_type = <<"T", "-", "l", "e", "v", "e", "l", "s">> -> LevelsAfter({"t", "T"})

\* The course types found in a transcript, in the order of course_patterns.
course_types_of(transcript) ==
    LET Found(course_type) == course_search(course_type, transcript)
    IN SelectSeq(CourseTypes, Found)

\* len(originals) for each label of a cluster_info
CountOriginals(info) == [label \in DOMAIN info |-> Len(info[label])]

(***************************************************************************)
(* student_data_normaliser.DataNormaliser.normalise_college_names          *)
(***************************************************************************)
\* college_specific_patterns but for the second one, which refers back to its
\* first group; the literals are lower-cased because the patterns are applied
\* with re.IGNORECASE.
college_specific_patterns ==
    << [re |-> "words", lits |-> << <<"c", "a", "m", "p", "u", "s">>, <<"b", "u", "d", "d", "y">>, <<"s", "i", "t", "e">>, <<"c", "e", "n", "t", "r", "e">>, <<"c", "e", "n", "t", "e", "r">> >>, repl |-> <<>>],
       [re |-> "repeat"],
       [re |-> "word", lit |-> <<"c", "o", "l", "l", "e", "g", "e", " ", "o", "f">>, repl |-> <<"c", "o", "l", "l", "e", "g", "e">>],
       [re |-> "word", lit |-> <<"u", "n", "i", "v", "e", "r", "s", "i", "t", "y", " ", "o", "f">>, repl |-> <<"u", "n", "i", "v", "e", "r", "s", "i", "t", "y">>],
       [re |-> "word", lit |-> <<"c", "r", "e", "n", "c", "e", "s", "t", "e", "r">>, repl |-> <<"c", "i", "r", "e", "n", "c", "e", "s", "t", "e", "r">>],
       [re |-> "word", lit |-> <<"b", "m", "e", "t">>, repl |-> <<"B", "i", "r", "m", "i", "n", "g", "h", "a", "m", " ", "M", "e", "t", "r", "o", "p", "o", "l", "i", "t", "a", "n">>],
       [re |-> "word", lit |-> <<"t", "e", "s">>, repl |-> <<"T", "E", "S">>] >>

\* Last index of the longest run of \w characters that starts at i; i-1 when
\* s[i] is not one.
RECURSIVE WordCharsEnd(_, _)
WordCharsEnd(s, i) ==
    IF i <= Len(s) /\ IsWordChar(s[i]) THEN WordCharsEnd(s, i + 1) ELSE i - 1

\* r'(\w+)(\s+\w+)\s+\1' at i, on the lower-cased text: [last, kept], the last
\* index of the match and the last index of its second group, or last = 0.  The
\* runs cannot be shorter than the longest ones: each is followed by a character
\* of the other class.
RepeatMatch(folded, i) ==
    LET a == WordCharsEnd(folded, i)
        b == SpaceRunEnd(folded, a + 1)
        c == WordCharsEnd(folded, b + 1)
        d == SpaceRunEnd(folded, c + 1)
    IN IF /\ a >= i /\ b > a /\ c > b /\ d > c
          /\ HasAt(folded, d + 1, SubSeq(folded, i, a))
       THEN [last |-> d + (a - i + 1), kept |-> c]
       ELSE [last |-> 0, kept |-> 0]

\* re.sub(r'(\w+)(\s+\w+)\s+\1', r'\1\2', s, flags=re.IGNORECASE), from i on
RECURSIVE SubRepeatFrom(_, _, _)
SubRepeatFrom(s, folded, i) ==
    IF i > Len(s) THEN <<>>
    ELSE LET m == RepeatMatch(folded, i)
         IN IF m.last = 0 THEN <<s[i]>> \o SubRepeatFrom(s, folded, i + 1)
            ELSE SubSeq(s, i, m.kept) \o SubRepeatFrom(s, folded, m.last + 1)

\* re.sub(p, repl, s, flags=re.IGNORECASE) for a pattern of MatchEnd, from i on:
\* the match is looked for in the lower-cased text.
RECURSIVE SubFoldedFrom(_, _, _, _, _)
SubFoldedFrom(p, repl, s, folded, i) ==
    IF i > Len(s) THEN <<>>
    ELSE LET e == MatchEnd(p, folded, i)
         IN IF e = 0 THEN <<s[i]>> \o SubFoldedFrom(p, repl, s, folded, i + 1)
            ELSE repl \o SubFoldedFrom(p, repl, s, folded, e + 1)

\* for pattern, replacement in college_specific_patterns: college = re.sub(...)
RECURSIVE ApplyCollegePatterns(_, _)
ApplyCollegePatterns(k, s) ==
    IF k > Len(college_specific_patterns) THEN s
    ELSE LET p == college_specific_patterns[k]
         IN ApplyCollegePatterns(k + 1,
                IF p.re = "repeat" THEN SubRepeatFrom(s, lower(s), 1)
                ELSE SubFoldedFrom(p, p.repl, s, lower(s), 1))

\* re.sub(r'\s+(college|university|institute|school)$', '', s, flags=re.IGNORECASE):
\* $ stands at the end and before a newline that ends the text.
RemoveSuffix(s) ==
    LET folded == lower(s)
        Ends == {Len(s)} \cup (IF s # <<>> /\ s[Len(s)] = "\n" THEN {Len(s) - 1} ELSE {})
        Words == {<<"c", "o", "l", "l", "e", "g", "e">>, <<"u", "n", "i", "v", "e", "r", "s", "i", "t", "y">>, <<"i", "n", "s", "t", "i", "t", "u", "t", "e">>, <<"s", "c", "h", "o", "o", "l">>}
        starts == {i \in 1..Len(s) :
                      /\ IsSpaceChar(s[i])
                      /\ \E w \in Words :
                            /\ HasAt(folded, SpaceRunEnd(s, i) + 1, w)
                            /\ SpaceRunEnd(s, i) + Len(w) \in Ends}
    IN IF starts = {} THEN s
       ELSE LET first == CHOOSE i \in starts : \A j \in starts : i <= j
                w == CHOOSE w \in Words :
                        /\ HasAt(folded, SpaceRunEnd(s, first) + 1, w)
                        /\ SpaceRunEnd(s, first) + Len(w) \in Ends
            IN SubSeq(s, 1, first - 1)
                  \o SubSeq(s, SpaceRunEnd(s, first) + Len(w) + 1, Len(s))

\* The body of "for college in college_values": the cleaned college of one value.
cleaned_college(val) ==
    LET Word(lit, s) == \E i \in 1..Len(s) : WordMatchEnd(lit, s, i) # 0
        Known(folded) ==
            IF Contains(<<"f", "a", "r", "e", "h", "a", "m">>, folded) THEN <<"F", "a", "r", "e", "h", "a", "m", " ", "C", "o", "l", "l", "e", "g", "e">>
            ELSE IF Contains(<<"n", "e", "w", "c", "a", "s", "t", "l", "e">>, folded) THEN <<"N", "e", "w", "c", "a", "s", "t", "l", "e", " ", "C", "o", "l", "l", "e", "g", "e">>
            ELSE IF Contains(<<"m", "o", "u", "l", "t", "o", "n">>, folded) THEN <<"M", "o", "u", "l", "t", "o", "n", " ", "C", "o", "l", "l", "e", "g", "e">>
            ELSE IF Contains(<<"b", "i", "s", "h", "o", "p", " ", "b", "u", "r", "t", "o", "n">>, folded) THEN <<"B", "i", "s", "h", "o", "p", " ", "B", "u", "r", "t", "o", "n", " ", "C", "o", "l", "l", "e", "g", "e">>
            ELSE IF Contains(<<"b", "m", "e", "t">>, folded) THEN <<"B", "M", "E", "T", " ", "C", "o", "l", "l", "e", "g", "e">>
            ELSE <<>>
        BishopBurton(folded) ==
            \E i \in 1..Len(folded) :
                /\ BoundaryAt(folded, i)
                /\ HasAt(folded, i, <<"b", "i", "s", "h", "o", "p">>)
                /\ LET j == SpaceRunEnd(folded, i + 6) + 1
                   IN HasAt(folded, j, <<"b", "u", "r", "t", "o", "n">>) /\ BoundaryAt(folded, j + 6)
        Special(s) ==
            LET folded == lower(s)
            IN IF HasAt(folded, 1, <<"f", "a", "r", "e", "h", "a", "m">>) /\ BoundaryAt(folded, 8)
               THEN <<"F", "a", "r", "e", "h", "a", "m", " ", "C", "o", "l", "l", "e", "g", "e">>
               ELSE IF HasAt(folded, 1, <<"f", "a", "r", "m", "h", "a", "m">>) /\ BoundaryAt(folded, 8)
               THEN <<"F", "a", "r", "e", "h", "a", "m", " ", "C", "o", "l", "l", "e", "g", "e">>
               ELSE IF Word(<<"m", "o", "u", "l", "t", "o", "n">>, folded) THEN <<"M", "o", "u", "l", "t", "o", "n", " ", "C", "o", "l", "l", "e", "g", "e">>
               ELSE IF BishopBurton(folded) THEN <<"B", "i", "s", "h", "o", "p", " ", "B", "u", "r", "t", "o", "n", " ", "C", "o", "l", "l", "e", "g", "e">>
               ELSE IF Word(<<"n", "e", "w", "c", "a", "s", "t", "l", "e">>, folded) THEN <<"N", "e", "w", "c", "a", "s", "t", "l", "e", " ", "C", "o", "l", "l", "e", "g", "e">>
               ELSE IF Word(<<"a", "l", "e", "x">>, folded) THEN Unknown
               ELSE IF Word(<<"c", "a", "p", "i", "t", "a", "l", " ", "c", "i", "t", "y">>, folded) THEN <<"C", "a", "p", "i", "t", "a", "l", " ", "C", "i", "t", "y", " ", "C", "o", "l", "l", "e", "g", "e">>
               ELSE IF Word(<<"c", "i", "r", "c", "e", "n", "c", "e", "s", "t", "e", "r">>, folded) \/ Word(<<"c", "i", "r", "e", "n", "c", "e", "s", "t", "e", "r">>, folded)
               THEN <<"C", "i", "r", "e", "n", "c", "e", "s", "t", "e", "r", " ", "C", "o", "l", "l", "e", "g", "e">>
               ELSE s
        Cased(s) ==
            IF lower(s) \in {<<"u", "n", "k", "n", "o", "w", "n">>, <<"t", "e", "s">>} THEN s
            ELSE IF lower(s) = <<"b", "m", "e", "t">> THEN <<"B", "M", "E", "T", " ", "C", "o", "l", "l", "e", "g", "e">>
            ELSE display_name(lower(s))
        Suffixed(s) ==
            IF /\ Len(split(s)) = 1
               /\ lower(s) \notin {<<"u", "n", "k", "n", "o", "w", "n">>, <<"t", "e", "s">>}
               /\ ~Contains(<<"c", "o", "l", "l", "e", "g", "e">>, lower(s))
               /\ ~Contains(<<"u", "n", "i", "v", "e", "r", "s", "i", "t", "y">>, lower(s))
            THEN s \o <<" ", "C", "o", "l", "l", "e", "g", "e">>
            ELSE s
        Cleaned(s) ==
            Bind(strip(CollapseFrom(RemoveSuffix(ApplyCollegePatterns(1, strip(s))), 1)),
                 LAMBDA tidy :
                    Bind(Suffixed(Cased(Special(tidy))),
                         LAMBDA college : IF college = <<>> THEN Unknown ELSE college))
    IN IF ~Truthy(val) \/ ~isinstance_str(val) THEN Unknown
       ELSE IF Contains(<<"[", "r", "e", "d", "a", "c", "t", "e", "d">>, lower(val.s))
       THEN IF Known(lower(val.s)) = <<>> THEN Unknown
            ELSE Cleaned(Known(lower(val.s)))
       ELSE Cleaned(val.s)

\* normalise_college_names: the count of each cleaned college.  A dict is kept
\* as a function, so the order that the final sort gives to the keys is not
\* represented.
RECURSIVE CountColleges(_, _, _)
CountColleges(docs, k, counts) ==
    IF k > Len(docs) THEN counts
    ELSE CountColleges(docs, k + 1,
             Inc(counts, cleaned_college(doc_get(docs[k], "college", PyStr(Unknown)))))

normalise_college_names(docs) == CountColleges(docs, 1, <<>>)

\* data_normaliser.DataNormaliser.generate_stats_with_normalised_values
staff_generate_stats(docs) ==
    LET Kept(study) == study.found /\ Truthy(study.value)
        Searched(transcript) == Truthy(transcript)
        AllFound(searched) ==
            LET Counted[k \in 0..Len(searched)] ==
                    IF k = 0 THEN <<>>
                    ELSE IncAll(Counted[k - 1], course_types_of(searched[k].s), 1)
            IN Counted[Len(searched)]
        Finish(got, clustered) ==
            IF \/ got.college.raised \/ got.gender.raised \/ got.age.raised
               \/ \E k \in 1..Len(docs) : got.studies[k].raised
               \/ clustered.raised
               \/ \E k \in 1..Len(got.searched) : got.searched[k].kind # "str"
            THEN [raised |-> TRUE, stats |-> <<>>]
            ELSE [raised |-> FALSE,
                  stats |-> [college |-> CountOriginals(got.college.cluster_info),
                             gender |-> CountOriginals(got.gender.cluster_info),
                             age_group |-> CountOriginals(got.age.cluster_info),
                             subjects |-> CountOriginals(clustered.cluster_info),
                             course_types |-> AllFound(got.searched)]]
        Clustered(got) ==
            Bind(SelectSeq(got.studies, Kept),
                 LAMBDA kept :
                   IF \E k \in 1..Len(docs) : got.studies[k].raised
                   THEN [raised |-> TRUE]
                   ELSE cluster_similar_values(
                            "staff", [k \in 1..Len(kept) |-> kept[k].value],
                            "subject", DefaultThreshold))
    IN Bind([college |-> normalise_field_values("staff", docs, <<"college">>, "college"),
             gender |-> normalise_field_values("staff", docs, <<"gender">>, "gender"),
             age |-> normalise_field_values("staff", docs, <<"age_group">>,
                                            "age_group"),
             studies |-> [k \in 1..Len(docs) |-> InPath(docs[k], StudyFieldPath, 1)],
             searched |->
                 SelectSeq([k \in 1..Len(docs) |->
                               doc_get(docs[k], "transcript", PyStr(<<>>))],
                           Searched)],
            LAMBDA got : Bind(Clustered(got), LAMBDA clustered : Finish(got, clustered)))

\* doc_after_update for "update_doc = doc" (a fault: without the copy the writes
\* into update_doc are writes into the input document).
doc_after_update_alias(doc, update_doc) == update_doc

\* What the input document is after the writes into update_doc:
\* update_doc = doc.copy() is another dict, so the document is as before.
doc_after_update(doc, update_doc) == doc

\* student_data_normaliser: one pass of "for doc in documents".  When a
\* variation of gender_clusters is not a string the pass raises at v.lower(); the pass
\* of the document that holds that value raises at doc["gender"].strip().
student_document(doc, variations) ==
    LET Fail == [raised |-> TRUE, value |-> <<>>]
        Ok(label) == [raised |-> FALSE, value |-> label]
        Held(key) == HasKey(doc.d, key) /\ Truthy(GetItem(doc.d, key))
        about_user ==
            IF HasKey(doc.d, "responses") /\ Truthy(GetItem(doc.d, "responses"))
            THEN InPath(GetItem(doc.d, "responses"), <<"about_user">>, 1)
            ELSE [raised |-> FALSE, found |-> FALSE, value |-> PyNone]
        FromAboutUser(key) ==
            IF about_user.raised \/ ~about_user.found THEN about_user
            ELSE InPath(about_user.value, <<key>>, 1)
        gender ==
            IF Held("gender")
            THEN IF GetItem(doc.d, "gender").kind = "str"
                 THEN Ok(strip(GetItem(doc.d, "gender").s))
                 ELSE Fail
            ELSE LET held == FromAboutUser("gender")
                 IN IF held.raised THEN Fail
                    ELSE IF ~held.found THEN Ok(Unknown)
                    ELSE IF held.value.kind # "str" THEN Fail
                    ELSE IF Contains(<<"f", "e", "m", "a", "l", "e">>, lower(held.value.s)) THEN Ok(<<"F", "e", "m", "a", "l", "e">>)
                    ELSE IF Contains(<<"m", "a", "l", "e">>, lower(held.value.s)) THEN Ok(<<"M", "a", "l", "e">>)
                    ELSE IF Contains(<<"b", "i", "n", "a", "r", "y">>, lower(held.value.s)) THEN Ok(<<"N", "o", "n", "-", "b", "i", "n", "a", "r", "y">>)
                    ELSE Ok(Unknown)
        age_group ==
            IF Held("age_group")
            THEN IF GetItem(doc.d, "age_group").kind = "str"
                 THEN Ok(strip(GetItem(doc.d, "age_group").s))
                 ELSE Fail
            ELSE LET held == FromAboutUser("over_25")
                 IN IF held.raised THEN Fail
                    ELSE IF ~held.found THEN Ok(Unknown)
                    ELSE IF Truthy(held.value) THEN Ok(<<"O", "v", "e", "r", " ", "2", "5">>)
                    ELSE Ok(<<"U", "n", "d", "e", "r", " ", "2", "5">>)
        ClusterName(original) ==
            LET hits == {name \in DOMAIN variations :
                            \E k \in 1..Len(variations[name]) :
                                lower(variations[name][k].s) = lower(original)}
            IN IF hits = {} THEN original ELSE CHOOSE name \in hits : TRUE
        college ==
            IF ~Held("college") THEN Ok(Unknown)
            ELSE IF GetItem(doc.d, "college").kind # "str" THEN Fail
            ELSE IF \E name \in DOMAIN variations :
                       \E k \in 1..Len(variations[name]) : variations[name][k].kind # "str"
            THEN Fail
            ELSE Ok(ClusterName(strip(GetItem(doc.d, "college").s)))
        study == InPath(doc, StudyFieldPath, 1)
        AsList(labels) == PyList([k \in 1..Len(labels) |-> PyStr(labels[k])])
        Subjects(text_to_analyze) ==
            LET Mentioned(entry_p) ==
                    \E k \in 1..Len(entry_p.patterns) :
                        \E i \in 1..Len(text_to_analyze) :
                            WordMatchEnd(entry_p.patterns[k], text_to_analyze, i) # 0
            IN Bind(SelectSeq(subject_patterns, Mentioned),
                    LAMBDA mentioned : [k \in 1..Len(mentioned) |-> mentioned[k].subject])
        Finish(got) ==
            IF \/ got.gender.raised \/ got.age_group.raised \/ got.college.raised
               \/ got.raised
               \/ (Truthy(got.study_field) /\ got.study_field.kind # "str")
               \/ (Truthy(got.transcript) /\ got.transcript.kind # "str")
            THEN [raised |-> TRUE, gender |-> <<>>, age_group |-> <<>>,
                  subjects |-> <<>>, course_types |-> <<>>, update_doc |-> PyNone]
            ELSE Bind([doc_subjects |->
                           Subjects(lower(
                               (IF Truthy(got.study_field)
                                THEN got.study_field.s \o <<" ">> ELSE <<>>)
                               \o (IF Truthy(got.transcript)
                                   THEN got.transcript.s ELSE <<>>))),
                       doc_course_types |->
                           IF Truthy(got.transcript)
                           THEN course_types_of(got.transcript.s) ELSE <<>>],
                      LAMBDA found :
                        [raised |-> FALSE, gender |-> got.gender.value,
                         age_group |-> got.age_group.value,
                         subjects |-> found.doc_subjects,
                         course_types |-> found.doc_course_types,
                         update_doc |->
                             PyDict(SetItem(SetItem(SetItem(SetItem(SetItem(doc.d,
                                 "gender", PyStr(got.gender.value)),
                                 "age_group", PyStr(got.age_group.value)),
                                 "college", PyStr(got.college.value)),
                                 "subjects", AsList(found.doc_subjects)),
                                 "course_types", AsList(found.doc_course_types)))])
    IN Bind([gender |-> gender, age_group |-> age_group, college |-> college,
             raised |-> study.raised,
             study_field |-> IF study.found THEN study.value ELSE PyNone,
             transcript |-> doc_get(doc, "transcript", PyStr(<<>>))],
            Finish)

(***************************************************************************)
(* Inputs of the clean_text calls                                          *)
(***************************************************************************)
MaxLen == 3

Categories == {"none", "college", "subject", "gender"}

CleanAlphabet == {"a", "A", "3", " ", "-", "_"}

RECURSIVE StringsUpTo(_, _)
StringsUpTo(alphabet, n) ==
    IF n = 0 THEN {<<>>}
    ELSE LET shorter == StringsUpTo(alphabet, n - 1)
         IN shorter \cup {Append(s, c) : s \in {t \in shorter : Len(t) = n - 1},
                                         c \in alphabet}

CuratedTexts ==
    { <<"U", "n", "k", "n", "o", "w", "n">>,
      <<"L", "e", "v", "e", "l", "-", "3", " ", "A", "r", "t">>,
      <<"l", "e", "v", "e", "l", " ", "l", "e", "v", "e", "l", " ", "3", " ", "3">>,
      <<"B", "T", "E", "C", " ", "I", "T">>,
      <<"A", "-", "l", "e", "v", "e", "l", "s", " ", "a", "r", "t">>,
      <<"t", "-", "l", "e", "v", "e", "l", "\t", "\n", "i", "t">>,
      <<"X", " ", "C", "a", "m", "p", "u", "s", " ", "C", "o", "l", "l", "e", "g", "e", ".">>,
      <<"[", "r", "e", "d", "a", "c", "t", "e", "d", ":", " ", "n", "]", " ", "a", "r", "t">>,
      <<"[", "R", "e", "d", "a", "c", "t", "e", "d", ":", " ", "n", "]">>,
      <<" ", " ", " ">> }

CleanInputs ==
    {PyNone, PyInt(0), PyInt(7)}
        \cup {PyStr(s) : s \in StringsUpTo(CleanAlphabet, MaxLen) \cup CuratedTexts}

(***************************************************************************)
(* SpecClean: clean_text applied to an input, then to its own result       *)
(***************************************************************************)
ClusterIdle ==
    /\ variant = "staff"
    /\ entry = "cluster"
    /\ documents = <<>>
    /\ field_path = <<>>
    /\ threshold = 0
    /\ value_list = <<>>
    /\ cleaned_values = <<>>
    /\ sorted_values = <<>>
    /\ seed_index = 0
    /\ clusters = <<>>
    /\ assigned = {}
    /\ mapping = <<>>
    /\ original_to_canonical = <<>>
    /\ cluster_info = <<>>
    /\ normalised_values = <<>>
    /\ prev_threshold = 0
    /\ prev_clusters = <<>>

CleanIdle ==
    /\ text = PyNone
    /\ cleaned = <<>>
    /\ recleaned = <<>>

SimIdle ==
    /\ sim_a = <<>>
    /\ sim_b = <<>>
    /\ sim_ab = Ratio(0, 1)
    /\ sim_ba = Ratio(0, 1)
    /\ sim_aa = Ratio(0, 1)

InitClean ==
    /\ pc = "clean"
    /\ category \in Categories
    /\ text \in CleanInputs
    /\ cleaned = <<>>
    /\ recleaned = <<>>
    /\ ClusterIdle
    /\ SimIdle
    /\ OtherIdle

CleanOnce ==
    /\ pc = "clean"
    /\ cleaned' = clean_text(text, category)
    /\ pc' = "reclean"
    /\ UNCHANGED <<category, text, recleaned, cluster_vars, sim_vars, other_vars>>

CleanAgain ==
    /\ pc = "reclean"
    /\ recleaned' = clean_text(PyStr(cleaned), category)
    /\ pc' = "cleaned"
    /\ UNCHANGED <<category, text, cleaned, cluster_vars, sim_vars, other_vars>>

NextClean == CleanOnce \/ CleanAgain

SpecClean == InitClean /\ [][NextClean]_vars

(***************************************************************************)
(* SpecSim: similarity_ratio applied to a pair of strings, both ways round *)
(***************************************************************************)
MaxSimLen == 4

SimAlphabet == {"a", "b"}

SimStrings == StringsUpTo(SimAlphabet, MaxSimLen)

InitSim ==
    /\ pc = "compare"
    /\ category = "none"
    /\ sim_a \in SimStrings
    /\ sim_b \in SimStrings
    /\ sim_ab = Ratio(0, 1)
    /\ sim_ba = Ratio(0, 1)
    /\ sim_aa = Ratio(0, 1)
    /\ ClusterIdle
    /\ CleanIdle
    /\ OtherIdle

Compare ==
    /\ pc = "compare"
    /\ sim_ab' = similarity_ratio(sim_a, sim_b)
    /\ sim_ba' = similarity_ratio(sim_b, sim_a)
    /\ sim_aa' = similarity_ratio(sim_a, sim_a)
    /\ pc' = "compared"
    /\ UNCHANGED <<category, sim_a, sim_b, cluster_vars, clean_vars, other_vars>>

NextSim == Compare

SpecSim == InitSim /\ [][NextSim]_vars

(***************************************************************************)
(* Spec: calls of cluster_similar_values, directly or through              *)
(* normalise_field_values, and a second call on the same batch with a      *)
(* higher threshold                                                        *)
(***************************************************************************)
LocalsReset ==
    /\ cleaned_values = <<>>
    /\ sorted_values = <<>>
    /\ seed_index = 0
    /\ clusters = <<>>
    /\ assigned = {}
    /\ mapping = <<>>
    /\ original_to_canonical = <<>>
    /\ cluster_info = <<>>
    /\ normalised_values = <<>>

InitDirect ==
    /\ entry = "cluster"
    /\ category \in ClusterCategories
    /\ threshold \in Thresholds
    /\ value_list \in SeqsUpTo(RawPool(category), MaxBatch)
    /\ documents = <<>>
    /\ field_path = <<>>
    /\ pc = "start"

InitField ==
    /\ entry = "field"
    /\ \E f \in Fields :
        /\ category = f.cat
        /\ field_path = f.path
        /\ \E held \in SeqsUpTo(FieldPool, MaxBatch) :
              documents = [k \in 1..Len(held) |-> MakeDoc(f.path, 1, held[k])]
    /\ threshold = DefaultThreshold
    /\ value_list = <<>>
    /\ pc = "extract"

Init ==
    /\ variant \in Variants
    /\ InitDirect \/ InitField
    /\ LocalsReset
    /\ prev_threshold = 0
    /\ prev_clusters = <<>>
    /\ CleanIdle
    /\ SimIdle
    /\ OtherIdle

\* normalise_field_values, up to its call of cluster_similar_values(values, category)
ExtractValues ==
    /\ pc = "extract"
    /\ value_list' = [k \in 1..Len(documents) |-> extract_value(documents[k], field_path)]
    /\ pc' = "start"
    /\ UNCHANGED <<variant, entry, documents, field_path, category, threshold,
                   cleaned_values, sorted_values, seed_index, clusters, assigned,
                   mapping, original_to_canonical, cluster_info, normalised_values,
                   prev_threshold, prev_clusters, clean_vars, sim_vars, other_vars>>

\* if not value_list: return {}, {}
ReturnEmpty ==
    /\ pc = "start"
    /\ value_list = <<>>
    /\ original_to_canonical' = <<>>
    /\ cluster_info' = <<>>
    /\ pc' = "returned"
    /\ UNCHANGED <<variant, entry, documents, field_path, category, threshold,
                   value_list, cleaned_values, sorted_values, seed_index, clusters,
                   assigned, mapping, normalised_values, prev_threshold,
                   prev_clusters, clean_vars, sim_vars, other_vars>>

\* The first pass (and, in the student module, the split of combined subjects)
CleanValues ==
    /\ pc = "start"
    /\ value_list # <<>>
    /\ LET first_pass == [k \in 1..Len(value_list) |-> clean_text(value_list[k], category)]
       IN cleaned_values' =
              IF variant = "student" /\ category = "subject"
              THEN split_combined_subjects(first_pass, category)
              ELSE first_pass
    /\ pc' = "map"
    /\ UNCHANGED <<variant, entry, documents, field_path, category, threshold,
                   value_list, sorted_values, seed_index, clusters, assigned, mapping,
                   original_to_canonical, cluster_info, normalised_values,
                   prev_threshold, prev_clusters, clean_vars, sim_vars, other_vars>>

DirectMap ==
    /\ pc = "map"
    /\ cleaned_values' = apply_direct_mappings(variant, cleaned_values, category)
    /\ pc' = "count"
    /\ UNCHANGED <<variant, entry, documents, field_path, category, threshold,
                   value_list, sorted_values, seed_index, clusters, assigned, mapping,
                   original_to_canonical, cluster_info, normalised_values,
                   prev_threshold, prev_clusters, clean_vars, sim_vars, other_vars>>

CountFrequencies ==
    /\ pc = "count"
    /\ sorted_values' = value_counts_index(cleaned_values)
    /\ clusters' = <<>>
    /\ assigned' = {}
    /\ seed_index' = 1
    /\ pc' = "cluster"
    /\ UNCHANGED <<variant, entry, documents, field_path, category, threshold,
                   value_list, cleaned_values, mapping, original_to_canonical,
                   cluster_info, normalised_values, prev_threshold, prev_clusters,
                   clean_vars, sim_vars, other_vars>>

\* One pass of the outer loop "for i, val1 in enumerate(sorted_values)"
ClusterStep ==
    /\ pc = "cluster"
    /\ seed_index <= Len(sorted_values)
    /\ LET val1 == sorted_values[seed_index]
       IN IF val1 \in assigned \/ val1 = Unknown
          THEN UNCHANGED <<clusters, assigned>>
          ELSE LET grown == GrowCluster(val1, sorted_values, 1, <<val1>>,
                                        assigned \cup {val1}, threshold)
               IN /\ clusters' = Append(clusters, grown.cluster)
                  /\ assigned' = grown.assigned
    /\ seed_index' = seed_index + 1
    /\ UNCHANGED <<pc, variant, entry, documents, field_path, category, threshold,
                   value_list, cleaned_values, sorted_values, mapping,
                   original_to_canonical, cluster_info, normalised_values,
                   prev_threshold, prev_clusters, clean_vars, sim_vars, other_vars>>

BuildMapping ==
    /\ pc = "cluster"
    /\ seed_index > Len(sorted_values)
    /\ mapping' = build_mapping(clusters, cleaned_values)
    /\ pc' = "originals"
    /\ UNCHANGED <<variant, entry, documents, field_path, category, threshold,
                   value_list, cleaned_values, sorted_values, seed_index, clusters,
                   assigned, original_to_canonical, cluster_info, normalised_values,
                   prev_threshold, prev_clusters, clean_vars, sim_vars, other_vars>>

\* The last loop and the return.  original_to_canonical[original] = canonical
\* raises TypeError for an original that is a dict (unhashable): the call ends
\* at "raised" and returns nothing.
BuildOriginals ==
    /\ pc = "originals"
    /\ IF \E k \in HandledPositions(value_list, cleaned_values) :
              value_list[k].kind \in {"dict", "list"}
       THEN /\ pc' = "raised"
            /\ UNCHANGED <<original_to_canonical, cluster_info>>
       ELSE /\ original_to_canonical' =
                   build_original_to_canonical(variant, value_list, cleaned_values,
                                               mapping)
            /\ cluster_info' = build_cluster_info(value_list, cleaned_values, mapping)
            /\ pc' = "returned"
    /\ UNCHANGED <<variant, entry, documents, field_path, category, threshold,
                   value_list, cleaned_values, sorted_values, seed_index, clusters,
                   assigned, mapping, normalised_values, prev_threshold,
                   prev_clusters, clean_vars, sim_vars, other_vars>>

\* normalise_field_values, after the call: the labels of the documents
ApplyMapping ==
    /\ pc = "returned"
    /\ entry = "field"
    /\ normalised_values' =
           [k \in 1..Len(value_list) |->
               dict_get(original_to_canonical, value_list[k], Unknown)]
    /\ pc' = "done"
    /\ UNCHANGED <<variant, entry, documents, field_path, category, threshold,
                   value_list, cleaned_values, sorted_values, seed_index, clusters,
                   assigned, mapping, original_to_canonical, cluster_info,
                   prev_threshold, prev_clusters, clean_vars, sim_vars, other_vars>>

\* A second call of cluster_similar_values on the same batch, threshold raised
Recluster ==
    /\ pc = "returned"
    /\ entry = "cluster"
    /\ prev_threshold = 0
    /\ \E higher \in Thresholds :
        /\ higher > threshold
        /\ threshold' = higher
    /\ prev_threshold' = threshold
    /\ prev_clusters' = clusters
    /\ cleaned_values' = <<>>
    /\ sorted_values' = <<>>
    /\ seed_index' = 0
    /\ clusters' = <<>>
    /\ assigned' = {}
    /\ mapping' = <<>>
    /\ original_to_canonical' = <<>>
    /\ cluster_info' = <<>>
    /\ pc' = "start"
    /\ UNCHANGED <<variant, entry, documents, field_path, category, value_list,
                   normalised_values, clean_vars, sim_vars, other_vars>>

Next ==
    \/ ExtractValues
    \/ ReturnEmpty
    \/ CleanValues
    \/ DirectMap
    \/ CountFrequencies
    \/ ClusterStep
    \/ BuildMapping
    \/ BuildOriginals
    \/ ApplyMapping
    \/ Recluster

Spec == Init /\ [][Next]_vars

(***************************************************************************)
(* normalise_field_values on malformed documents (SpecField): the value    *)
(* found on the way along the path may be None, a number, a string or a    *)
(* dict that lacks the next key                                            *)
(***************************************************************************)
MaxDocs == 2

RoughValues ==
    { PyNone, PyInt(7), PyStr(<<"F", "a", "r", "e", "h", "a", "m">>),
      PyDict(<< <<"a", PyNone>> >>) }

\* The documents that hold a value of RoughValues at some prefix of the path, and
\* the empty document.
RoughDocs(path) ==
    {PyDict(<<>>)} \cup
    {MakeDoc(SubSeq(path, 1, j), 1, v) : j \in 1..Len(path), v \in RoughValues}

InitRough ==
    /\ variant \in Variants
    /\ entry = "field"
    /\ \E f \in Fields :
        /\ category = f.cat
        /\ field_path = f.path
        /\ documents \in SeqsUpTo(RoughDocs(f.path), MaxDocs)
    /\ threshold = DefaultThreshold
    /\ value_list = <<>>
    /\ pc = "extract"
    /\ LocalsReset
    /\ prev_threshold = 0
    /\ prev_clusters = <<>>
    /\ CleanIdle
    /\ SimIdle
    /\ OtherIdle

\* normalise_field_values makes one call of cluster_similar_values.
NextField ==
    \/ ExtractValues
    \/ ReturnEmpty
    \/ CleanValues
    \/ DirectMap
    \/ CountFrequencies
    \/ ClusterStep
    \/ BuildMapping
    \/ BuildOriginals
    \/ ApplyMapping

SpecField == InitRough /\ [][NextField]_vars

(***************************************************************************)
(* apply_direct_mappings on its own (SpecMap): the function is applied to  *)
(* a list, to its own result, to each value alone and to the reversed list *)
(***************************************************************************)
MaxMapLen == 2

MapPool ==
    { <<"i", "t">>,
      <<"a", "n", "i", "m", "a", "l", " ", "c", "a">>,
      <<"a", "n", "i", "m", "a", "l", " ", "c", "a", "r">>,
      <<"m", "a", "t", "h", "s">>,
      <<"a", "r", "t">>,
      <<"i", "n", "f", "o", "r", "m", "a", "t", "i", "o", "n", " ",
        "t", "e", "c", "h", "n", "o", "l", "o", "g", "y">> }

Reverse(q) == [k \in 1..Len(q) |-> q[Len(q) + 1 - k]]

InitMap ==
    /\ pc = "map"
    /\ category \in ClusterCategories
    /\ map_which \in Variants
    /\ map_in \in SeqsUpTo(MapPool, MaxMapLen)
    /\ map_out = <<>>
    /\ map_twice = <<>>
    /\ map_single = <<>>
    /\ map_rev = <<>>
    /\ ClusterIdle
    /\ CleanIdle
    /\ SimIdle
    /\ MoreIdle

MapOnce ==
    /\ pc = "map"
    /\ map_out' = apply_direct_mappings(map_which, map_in, category)
    /\ map_single' = [k \in 1..Len(map_in) |->
                         apply_direct_mappings(map_which, <<map_in[k]>>, category)[1]]
    /\ map_rev' = apply_direct_mappings(map_which, Reverse(map_in), category)
    /\ pc' = "mapped"
    /\ UNCHANGED <<category, map_which, map_in, map_twice,
                   cluster_vars, clean_vars, sim_vars, more_vars>>

MapAgain ==
    /\ pc = "mapped"
    /\ map_twice' = apply_direct_mappings(map_which, map_out, category)
    /\ pc' = "remapped"
    /\ UNCHANGED <<category, map_which, map_in, map_out, map_single, map_rev,
                   cluster_vars, clean_vars, sim_vars, more_vars>>

NextMap == MapOnce \/ MapAgain

SpecMap == InitMap /\ [][NextMap]_vars

(***************************************************************************)
(* get_percentage_range in data_summary, student_data_summary and          *)
(* thematic_analytics (SpecRange)                                          *)
(***************************************************************************)
\* student_data_summary.get_percentage_range
student_get_percentage_range(percentage) ==
    IF percentage < 15 THEN "under 15%"
    ELSE IF percentage <= 30 THEN "15-30%"
    ELSE IF percentage <= 50 THEN "30-50%"
    ELSE IF percentage <= 70 THEN "50-70%"
    ELSE IF percentage <= 85 THEN "71-85%"
    ELSE "over 85%"

\* data_summary.get_percentage_range, and the function of the same text nested
\* in thematic_analytics.format_keyword_themes
get_percentage_range(module, percentage) ==
    IF module = "student_data_summary" THEN student_get_percentage_range(percentage)
    ELSE IF percentage < 15 THEN "under 15%"
    ELSE IF percentage <= 30 THEN "15-30%"
    ELSE IF percentage <= 70 THEN "30-70%"
    ELSE IF percentage <= 85 THEN "71-85%"
    ELSE "over 85%"

InitRange ==
    /\ pc = "range"
    /\ category = "none"
    /\ range_call \in [module : {"data_summary", "student_data_summary",
                               "thematic_analytics"},
                     percentage : 0..100, result : {""}]
    /\ ClusterIdle
    /\ CleanIdle
    /\ SimIdle
    /\ MapIdle
    /\ StatsIdle
    /\ SaveIdle
    /\ LateIdle

GetRange ==
    /\ pc = "range"
    /\ range_call' = [range_call EXCEPT
                         !.result = get_percentage_range(range_call.module,
                                                         range_call.percentage)]
    /\ pc' = "ranged"
    /\ UNCHANGED <<category, cluster_vars, clean_vars, sim_vars, map_vars, stats_vars, save_call, late_vars>>

SpecRange == InitRange /\ [][GetRange]_vars

(***************************************************************************)
(* generate_stats_with_normalised_values, called twice on the same         *)
(* documents (SpecStats)                                                   *)
(***************************************************************************)
\* Interview documents: complete, without study_field, without responses, with
\* None as responses, with a number as gender, and without username.
StatsPool ==
    { PyDict(<< <<"username", PyStr(<<"u", "1">>)>>, <<"gender", PyStr(<<"F", "e", "m", "a", "l", "e">>)>>, <<"college", PyStr(<<"F", "a", "r", "e", "h", "a", "m">>)>>,
                <<"responses",
                  PyDict(<< <<"about_user",
                              PyDict(<< <<"study_field", PyStr(<<"M", "a", "t", "h", "s">>)>> >>)>> >>)>>,
                <<"transcript", PyStr(<<"a", "-", "l", "e", "v", "e", "l", " ", "a", "r", "t">>)>> >>),
      PyDict(<< <<"username", PyStr(<<"u", "2">>)>>,
                <<"responses",
                  PyDict(<< <<"about_user",
                              PyDict(<< <<"gender", PyStr(<<"f", "e", "m", "a", "l", "e">>)>>,
                                        <<"over_25", PyInt(1)>> >>)>> >>)>> >>),
      PyDict(<< <<"username", PyStr(<<"u", "3">>)>> >>),
      PyDict(<< <<"username", PyStr(<<"u", "4">>)>>, <<"responses", PyNone>> >>),
      PyDict(<< <<"username", PyStr(<<"u", "5">>)>>, <<"gender", PyInt(7)>>,
                <<"responses",
                  PyDict(<< <<"about_user",
                              PyDict(<< <<"study_field", PyStr(<<"A", "r", "t">>)>> >>)>> >>)>> >>),
      PyDict(<< <<"college", PyStr(<<"f", "e", "m", "a", "l", "e">>)>>,
                <<"responses",
                  PyDict(<< <<"about_user",
                              PyDict(<< <<"study_field", PyStr(<<>>)>> >>)>> >>)>>,
                <<"transcript", PyStr(<<"B", "T", "E", "C", "s">>)>> >>) }

InitStats ==
    /\ pc = "stats"
    /\ category = "none"
    /\ stats_which \in Variants
    /\ stats_given \in SeqsUpTo(StatsPool, MaxDocs)
    /\ stats_docs = stats_given
    /\ stats = <<>>
    /\ docs_to_update = <<>>
    /\ doc_index = 0
    /\ gender_clusters = <<>>
    /\ subject_mentions = <<>>
    /\ stats_first = [called |-> FALSE]
    /\ range_call = [module |-> "data_summary", percentage |-> 0, result |-> ""]
    /\ ClusterIdle
    /\ CleanIdle
    /\ SimIdle
    /\ MapIdle
    /\ SaveIdle
    /\ LateIdle

\* The staff module: the whole call.
StaffStats ==
    /\ pc = "stats"
    /\ stats_which = "staff"
    /\ \E call \in {staff_generate_stats(stats_docs)} :
          IF call.raised
          THEN pc' = "raised" /\ UNCHANGED stats
          ELSE pc' = "stats_returned" /\ stats' = call.stats
    /\ UNCHANGED <<category, cluster_vars, clean_vars, sim_vars, map_vars, range_call,
                   save_call, late_vars, stats_which, stats_given, stats_docs, docs_to_update, doc_index,
                   gender_clusters, subject_mentions, stats_first>>

\* The student module up to the loop over the documents.
StudentBegin ==
    /\ pc = "stats"
    /\ stats_which = "student"
    /\ \E colleges \in {normalise_college_names(stats_docs)},
          gender \in {normalise_field_values("student", stats_docs, <<"gender">>,
                                              "gender")},
          age \in {normalise_field_values("student", stats_docs, <<"age_group">>,
                                           "age_group")} :
          IF gender.raised \/ age.raised
          THEN /\ pc' = "raised"
               /\ UNCHANGED <<stats, gender_clusters, doc_index>>
          ELSE /\ pc' = "stats_loop"
               /\ stats' = [college |-> colleges, gender |-> <<>>,
                            age_group |-> <<>>, subjects |-> <<>>,
                            course_types |-> <<>>]
               /\ gender_clusters' = gender.cluster_info
               /\ doc_index' = 1
    /\ UNCHANGED <<category, cluster_vars, clean_vars, sim_vars, map_vars, range_call,
                   save_call, late_vars, stats_which, stats_given, stats_docs, docs_to_update,
                   subject_mentions, stats_first>>

\* One pass of "for doc in documents"
StudentDocument ==
    /\ pc = "stats_loop"
    /\ doc_index <= Len(stats_docs)
    /\ \E pass \in {student_document(stats_docs[doc_index], gender_clusters)} :
          IF pass.raised
          THEN /\ pc' = "raised"
               /\ UNCHANGED <<stats, stats_docs, docs_to_update, doc_index,
                              subject_mentions>>
          ELSE /\ stats' = [stats EXCEPT
                               !.gender = Inc(@, pass.gender),
                               !.age_group = Inc(@, pass.age_group),
                               !.course_types = IncAll(@, pass.course_types, 1)]
               /\ subject_mentions' = IncAll(subject_mentions, pass.subjects, 1)
               /\ stats_docs' = [stats_docs EXCEPT ![doc_index] =
                                    doc_after_update(@, pass.update_doc)]
               /\ docs_to_update' = Append(docs_to_update, pass.update_doc)
               /\ doc_index' = doc_index + 1
               /\ UNCHANGED pc
    /\ UNCHANGED <<category, cluster_vars, clean_vars, sim_vars, map_vars, range_call,
                   save_call, late_vars, stats_which, stats_given, gender_clusters, stats_first>>

\* stats["subjects"] = dict(subject_mentions); return stats, docs_to_update
StudentReturn ==
    /\ pc = "stats_loop"
    /\ doc_index > Len(stats_docs)
    /\ stats' = [stats EXCEPT !.subjects = subject_mentions]
    /\ pc' = "stats_returned"
    /\ UNCHANGED <<category, cluster_vars, clean_vars, sim_vars, map_vars, range_call,
                   save_call, late_vars, stats_which, stats_given, stats_docs, docs_to_update, doc_index,
                   gender_clusters, subject_mentions, stats_first>>

\* The caller keeps what was returned and calls again with the same list.
StatsAgain ==
    /\ pc = "stats_returned"
    /\ ~stats_first.called
    /\ stats_first' = [called |-> TRUE, stats |-> stats,
                       docs_to_update |-> docs_to_update]
    /\ stats' = <<>>
    /\ docs_to_update' = <<>>
    /\ doc_index' = 0
    /\ gender_clusters' = <<>>
    /\ subject_mentions' = <<>>
    /\ pc' = "stats"
    /\ UNCHANGED <<category, cluster_vars, clean_vars, sim_vars, map_vars, range_call,
                   save_call, late_vars, stats_which, stats_given, stats_docs>>

NextStats ==
    \/ StaffStats
    \/ StudentBegin
    \/ StudentDocument
    \/ StudentReturn
    \/ StatsAgain

SpecStats == InitStats /\ [][NextStats]_vars

(***************************************************************************)
(* mongo_utils.save_interview_bulk (SpecSave)                              *)
(***************************************************************************)
MAX_RETRY_ATTEMPTS == 3

\* What the store would answer to a find_one_and_update: the updated document,
\* nothing, or a PyMongoError.
StoreAnswers == {"document", "none", "error"}

\* config.MONGODB_COLLECTION_NAME as config.py has it: a string.
MONGODB_COLLECTION_NAME == <<"r", "e", "s", "p", "o", "n", "s", "e", "s">>

\* The values of config.MONGODB_COLLECTION_NAME that are followed: the string of
\* config.py, and a dict with one collection name for each type, which is what
\* get_collection and the dashboard pages index it as.
CollectionNames ==
    { [kind |-> "str", s |-> MONGODB_COLLECTION_NAME, keys |-> {}],
      [kind |-> "dict", s |-> <<>>, keys |-> {"Student", "Staff"}] }

\* The characters of a collection type.
TypeText(type) ==
    IF type = "Student" THEN <<"S", "t", "u", "d", "e", "n", "t">>
    ELSE <<"S", "t", "a", "f", "f">>

\* database.get_collection(type) called with the positional arguments args: a call
\* without the argument raises TypeError before the body runs.  "type in names" is
\* a substring test when names is a string, and names[type] then raises TypeError.
get_collection(args, database_up, names) ==
    IF Len(args) # 1 THEN "TypeError"
    ELSE IF ~database_up THEN "None"
    ELSE IF names.kind = "str"
    THEN IF Contains(TypeText(args[1]), names.s) THEN "TypeError" ELSE "None"
    ELSE IF args[1] \in names.keys THEN "collection"
    ELSE "None"

InitSave ==
    /\ pc = "save"
    /\ category = "none"
    /\ save_call \in [database_up : BOOLEAN,
                      answers : [1..MAX_RETRY_ATTEMPTS -> StoreAnswers],
                      disk_ok : BOOLEAN, attempts : {0}, backup_attempted : {FALSE},
                      backup_written : {FALSE}, result : {"none"}]
    /\ range_call = [module |-> "data_summary", percentage |-> 0, result |-> ""]
    /\ StatsIdle
    /\ LateIdle
    /\ ClusterIdle
    /\ CleanIdle
    /\ SimIdle
    /\ MapIdle

\* interview_data is built and the try block is entered.
EnterTry ==
    /\ pc = "save"
    /\ pc' = "get_collection"
    /\ UNCHANGED <<category, cluster_vars, clean_vars, sim_vars, map_vars, range_call,
                   stats_vars, save_call, late_vars>>

\* collection = get_collection(): line 46 passes no argument, the call raises
\* TypeError and "except Exception" (line 96) takes over; the lines after the call,
\* the retry loop among them, are not reached.
GetCollection ==
    /\ pc = "get_collection"
    /\ \A names \in CollectionNames :
          get_collection(<<>>, save_call.database_up, names) = "TypeError"
    /\ pc' = "except"
    /\ UNCHANGED <<category, cluster_vars, clean_vars, sim_vars, map_vars, range_call,
                   stats_vars, save_call, late_vars>>

\* return create_backup(username, interview_data): False whether or not the file
\* could be written.
CreateBackup ==
    /\ pc = "except"
    /\ save_call' = [save_call EXCEPT !.backup_attempted = TRUE,
                                      !.backup_written = save_call.disk_ok,
                                      !.result = "False"]
    /\ pc' = "save_returned"
    /\ UNCHANGED <<category, cluster_vars, clean_vars, sim_vars, map_vars, range_call,
                   stats_vars, late_vars>>

NextSave == EnterTry \/ GetCollection \/ CreateBackup

SpecSave == InitSave /\ [][NextSave]_vars

(***************************************************************************)
(* Properties of cluster_similar_values and normalise_field_values (Spec)  *)
(***************************************************************************)
\* The clustering loop of the current call has finished.
Clustered == pc \in {"originals", "returned", "done"}

\* The current call has returned its results.
Returned == pc \in {"returned", "done"}

\* The positions <<k, m>> of the cluster members.
MemberPositions(cls) == {p \in (1..Len(cls)) \X (1..MaxBatch * 4) : p[2] <= Len(cls[p[1]])}

\* The values that are clustered: the distinct cleaned values other than "Unknown".
ClusteredValues == Range(cleaned_values) \ {Unknown}

\* The members of the cluster that holds v, the empty sequence if none does.
ClusterHolding(cls, v) ==
    IF \E k \in 1..Len(cls) : v \in Range(cls[k])
    THEN cls[SetMin({k \in 1..Len(cls) : v \in Range(cls[k])})]
    ELSE <<>>

\* C1: the clusters partition the distinct cleaned values other than "Unknown":
\* every such value occurs at exactly one position of exactly one cluster, and
\* every member of a cluster is such a value.
PartitionOfCleanedValues ==
    Clustered =>
        /\ \A v \in ClusteredValues :
              Cardinality({p \in MemberPositions(clusters) :
                              clusters[p[1]][p[2]] = v}) = 1
        /\ \A k \in 1..Len(clusters) : Range(clusters[k]) \subseteq ClusteredValues

\* Witness of C1: a finished call with two clusters, one of them with two members.
PartitionWitness ==
    /\ Returned
    /\ Len(clusters) >= 2
    /\ \E k \in 1..Len(clusters) : Len(clusters[k]) >= 2

\* C2 as stated: any two members of a cluster are similar above the threshold.
MutuallySimilarClusters ==
    Clustered =>
        \A k \in 1..Len(clusters) :
            \A x \in Range(clusters[k]), y \in Range(clusters[k]) :
                x # y => RatioAbove(similarity_ratio(x, y), threshold)

\* C2 amended: every member of a cluster other than its seed (the first member)
\* has similarity_ratio(seed, member) above the threshold.
SimilarToSeed ==
    Clustered =>
        \A k \in 1..Len(clusters) :
            \A m \in 2..Len(clusters[k]) :
                RatioAbove(similarity_ratio(clusters[k][1], clusters[k][m]), threshold)

\* Witness of C2: a finished call with a cluster of three members.
SimilarToSeedWitness ==
    /\ Returned
    /\ \E k \in 1..Len(clusters) : Len(clusters[k]) >= 3

\* The field of document k is absent, None or empty.
MissingField(k) == ~Truthy(WalkPath(documents[k], field_path, 1))

\* C3: a document whose field is absent, None or empty is labelled "Unknown" by
\* normalise_field_values, and the value that stands for it shares a cluster with
\* no other value.
MissingFieldLabelledUnknown ==
    pc = "done" =>
        /\ \A k \in 1..Len(documents) : MissingField(k) => normalised_values[k] = Unknown
        /\ \A k \in 1..Len(documents), c \in 1..Len(clusters) :
              (MissingField(k) /\ cleaned_values[k] \in Range(clusters[c]))
                  => Len(clusters[c]) = 1

\* The values the pipeline derives from one original: its cleaned value, split in
\* the student module under "subject", each piece direct-mapped.
OwnValues(original) ==
    LET c == clean_text(original, category)
        pieces == IF variant = "student" /\ category = "subject"
                  THEN split_combined_subjects(<<c>>, category)
                  ELSE <<c>>
    IN Range(apply_direct_mappings(variant, pieces, category))

\* The label of the cluster that holds the cleaned value w.
LabelOfValue(w) ==
    IF w = Unknown THEN Unknown
    ELSE display_name(canonical_of(ClusterHolding(clusters, w), cleaned_values))

\* C5: every original is mapped to the label of the cluster that holds its own
\* cleaned and direct-mapped value, and cluster_info lists it under that label only.
OriginalsTakeOwnLabel ==
    (Returned /\ value_list # <<>>) =>
        \A k \in 1..Len(value_list) :
            LET own == {LabelOfValue(w) : w \in OwnValues(value_list[k])}
            IN /\ value_list[k] \in DOMAIN original_to_canonical
               /\ original_to_canonical[value_list[k]] \in own
               /\ \A label \in DOMAIN cluster_info :
                     value_list[k] \in Range(cluster_info[label]) => label \in own

\* C6: in every cluster the value chosen as canonical (the member whose display
\* name the mapping gives to all the members) is at least as frequent in the batch
\* as every member.
CanonicalMostFrequent ==
    Clustered /\ pc # "originals" =>
        \A k \in 1..Len(clusters) :
            \E c \in Range(clusters[k]) :
                /\ \A m \in Range(clusters[k]) :
                      /\ m \in DOMAIN mapping
                      /\ mapping[m] = display_name(c)
                      /\ CountOf(cleaned_values, c) >= CountOf(cleaned_values, m)

\* Witness of C6: a finished call with a cluster whose members differ in frequency.
CanonicalWitness ==
    /\ Returned
    /\ \E k \in 1..Len(clusters) :
          \E x \in Range(clusters[k]), y \in Range(clusters[k]) :
              CountOf(cleaned_values, x) > CountOf(cleaned_values, y)

\* C7 as stated: after the same batch is clustered again with a higher threshold,
\* the cluster that holds a value has at most as many members as before.
NoClusterGrows ==
    (Returned /\ prev_threshold # 0) =>
        \A v \in ClusteredValues :
            Len(ClusterHolding(clusters, v)) <= Len(ClusterHolding(prev_clusters, v))

\* C7 amended: raising the threshold never adds a member to the first cluster, the
\* one seeded by the most frequent value: its members at the higher threshold are
\* among its members at the lower one.
FirstClusterShrinks ==
    (Returned /\ prev_threshold # 0 /\ clusters # <<>>) =>
        /\ prev_clusters # <<>>
        /\ clusters[1][1] = prev_clusters[1][1]
        /\ Range(clusters[1]) \subseteq Range(prev_clusters[1])

\* Witness of C7: a second call whose first cluster lost a member.
FirstClusterWitness ==
    /\ Returned
    /\ prev_threshold # 0
    /\ clusters # <<>>
    /\ Len(clusters[1]) < Len(prev_clusters[1])

(***************************************************************************)
(* Properties of clean_text (SpecClean)                                    *)
(***************************************************************************)
\* The text argument is None, not a string, empty or made of whitespace only.
BlankInput(val) ==
    \/ val.kind # "str"
    \/ \A k \in 1..Len(val.s) : IsSpaceChar(val.s[k])

\* C4: clean_text returns "Unknown" for None, '', a whitespace-only string and a
\* value that is not a string, whatever the category.
BlankGivesUnknown ==
    (pc \in {"reclean", "cleaned"} /\ BlankInput(text)) => cleaned = Unknown

\* C8: cleaning is idempotent: clean_text(clean_text(x, c), c) = clean_text(x, c).
CleanIdempotent ==
    pc = "cleaned" => recleaned = cleaned

\* Lowercase letters, digits and single spaces only; no space at either end.
WellFormedCleaned(s) ==
    /\ \A k \in 1..Len(s) : s[k] \in LowerSet \cup Digits \cup {" "}
    /\ s # <<>> => s[1] # " " /\ s[Len(s)] # " "
    /\ \A k \in 1..(Len(s) - 1) : ~(s[k] = " " /\ s[k + 1] = " ")

\* C9: the result of clean_text is "Unknown" or a string of lowercase letters,
\* digits and single spaces, without punctuation and without a space at either end.
CleanedIsWellFormed ==
    pc \in {"reclean", "cleaned"} => (cleaned = Unknown \/ WellFormedCleaned(cleaned))

(***************************************************************************)
(* Properties of similarity_ratio (SpecSim)                                *)
(***************************************************************************)
\* C10: similarity_ratio is symmetric, gives 1.0 for a string and itself, and lies
\* in [0, 1].
SimilaritySymmetric ==
    pc = "compared" =>
        /\ RatioEq(sim_ab, sim_ba)
        /\ RatioEq(sim_aa, Ratio(1, 1))
        /\ sim_ab.num >= 0 /\ sim_ab.num <= sim_ab.den

(***************************************************************************)
(* Properties of apply_direct_mappings (SpecMap)                           *)
(***************************************************************************)
\* C11: apply_direct_mappings is idempotent and works value by value: applied to
\* its own result it returns that result; the result has the length of the input;
\* the result at a position is the result for that value alone, and reversing the
\* input reverses the result.
DirectMappingIdempotentPerValue ==
    /\ pc \in {"mapped", "remapped"} =>
          /\ Len(map_out) = Len(map_in)
          /\ \A k \in 1..Len(map_in) : map_out[k] = map_single[k]
          /\ map_rev = Reverse(map_out)
    /\ pc = "remapped" => map_twice = map_out

\* Witness of C11: two values were given, one was mapped and the other was not, and
\* the function was applied to its result.
DirectMappingWitness ==
    /\ pc = "remapped"
    /\ Len(map_in) = 2
    /\ map_out[1] # map_in[1]
    /\ map_out[2] = map_in[2]

\* The ratio is strictly greater than 0.9.
Above09(r) == r.num * 10 > r.den * 9

\* The entries of the table with an alias whose ratio to value is above 0.9.
CloseEntries(table, value) ==
    {e \in 1..Len(table) :
        \E a \in 1..Len(table[e].synonyms) :
            Above09(sequence_ratio(value, table[e].synonyms[a]))}

\* C12: a value is replaced by the canonical string of the first table entry that
\* has an alias with a ratio strictly greater than 0.9, and is left unchanged when
\* no entry has one (a ratio of exactly 0.9 does not map) or the category has no
\* table.
MappedExactlyAbove09 ==
    pc \in {"mapped", "remapped"} =>
        \A k \in 1..Len(map_in) :
            IF category \in DOMAIN synonym_mappings(map_which)
            THEN LET table == synonym_mappings(map_which)[category]
                     close == CloseEntries(table, map_in[k])
                 IN map_out[k] = IF close = {} THEN map_in[k]
                                 ELSE table[SetMin(close)].canonical
            ELSE map_out[k] = map_in[k]

\* Witness of C12: one value has a ratio of exactly 0.9 to an alias and is left
\* unchanged, another has a ratio above 0.9 and is replaced.
ExactLimitWitness ==
    /\ pc = "mapped"
    /\ category \in DOMAIN synonym_mappings(map_which)
    /\ Len(map_in) = 2
    /\ \E e \in 1..Len(synonym_mappings(map_which)[category]) :
          \E a \in 1..Len(synonym_mappings(map_which)[category][e].synonyms) :
              LET r == sequence_ratio(map_in[1],
                                      synonym_mappings(map_which)[category][e].synonyms[a])
              IN r.num * 10 = r.den * 9
    /\ map_out[1] = map_in[1]
    /\ map_out[2] # map_in[2]

(***************************************************************************)
(* Properties of normalise_field_values (Spec, SpecField)                  *)
(***************************************************************************)
\* C13: whenever normalise_field_values returns, the label list has one label per
\* document, in document order, and the label of a document is the value the
\* returned mapping holds for the raw value extracted from that document.
OneLabelPerDocument ==
    pc = "done" =>
        /\ Len(normalised_values) = Len(documents)
        /\ \A k \in 1..Len(documents) :
              LET raw == extract_value(documents[k], field_path)
              IN /\ raw \in DOMAIN original_to_canonical
                 /\ normalised_values[k] = original_to_canonical[raw]

\* Witness of C13: a returned call on three documents that get two different labels.
OneLabelWitness ==
    /\ pc = "done"
    /\ Len(documents) = 3
    /\ \E j \in 1..3, k \in 1..3 : normalised_values[j] # normalised_values[k]

\* Segment j of the path cannot be followed in doc: the value reached along the
\* segments before it is not a dict, or is a dict without that key.
BrokenAt(doc, path, j) ==
    LET reached == WalkPath(doc, SubSeq(path, 1, j - 1), 1)
    IN /\ \A h \in 1..(j - 1) :
             LET on == WalkPath(doc, SubSeq(path, 1, h - 1), 1)
             IN on.kind = "dict" /\ HasKey(on.d, path[h])
       /\ ~(reached.kind = "dict" /\ HasKey(reached.d, path[j]))

\* C14: a document in which a segment of the path is absent, or in which a value
\* on the way is not a dict, is given the raw value "Unknown"; the extraction does
\* not raise.
BrokenPathGivesUnknown ==
    pc # "extract" =>
        /\ Len(value_list) = Len(documents)
        /\ \A k \in 1..Len(documents) :
              (\E j \in 1..Len(field_path) : BrokenAt(documents[k], field_path, j))
                  => value_list[k] = PyStr(Unknown)

\* Witness of C14: a returned call on a document whose value on the way is a
\* string and a document that lacks a key.
BrokenPathWitness ==
    /\ pc = "done"
    /\ Len(field_path) = 3
    /\ Len(documents) = 2
    /\ WalkPath(documents[1], SubSeq(field_path, 1, 1), 1).kind = "str"
    /\ BrokenAt(documents[2], field_path, 3)

\* C15: for field values that are not strings (None, a number, a dict) the call
\* never raises, and when it has returned each such document is labelled
\* "Unknown".
NonStringsLabelledUnknown ==
    /\ pc # "raised"
    /\ pc = "done" =>
          \A k \in 1..Len(documents) :
              WalkPath(documents[k], field_path, 1).kind # "str"
                  => normalised_values[k] = Unknown

(***************************************************************************)
(* Properties of get_percentage_range (SpecRange)                          *)
(***************************************************************************)
\* C16: in each of the three modules, for every integer percentage p in 0..100
\* get_percentage_range returns "under 15%" for p < 15, "15-30%" for 15..30,
\* "30-70%" for 31..70, "71-85%" for 71..85 and "over 85%" above 85.
RangeAsSpecified ==
    pc = "ranged" =>
        LET p == range_call.percentage
        IN range_call.result =
               IF p < 15 THEN "under 15%"
               ELSE IF p <= 30 THEN "15-30%"
               ELSE IF p <= 70 THEN "30-70%"
               ELSE IF p <= 85 THEN "71-85%"
               ELSE "over 85%"

(***************************************************************************)
(* Properties of generate_stats_with_normalised_values (SpecStats)         *)
(***************************************************************************)
\* The positions of the documents handed over that lack
\* responses.about_user.study_field.
LackingStudyField ==
    {k \in 1..Len(stats_given) :
        \E j \in 1..Len(StudyFieldPath) : BrokenAt(stats_given[k], StudyFieldPath, j)}

\* C17: generate_stats_with_normalised_values does not raise on documents that
\* lack responses.about_user.study_field, and each such document adds one to
\* stats["subjects"]["Unknown"].
LackingStudyFieldCountedUnknown ==
    /\ (pc = "raised" => LackingStudyField # 1..Len(stats_given))
    /\ (pc = "stats_returned" /\ LackingStudyField # {}) =>
          /\ Unknown \in DOMAIN stats.subjects
          /\ stats.subjects[Unknown] >= Cardinality(LackingStudyField)

PayloadKeys == {"username", "college", "gender", "age_group", "subjects", "course_types"}

\* C18: the student module returns one payload per document, in the order of the
\* documents, and the keys of a payload are only username and the normalised
\* fields college, gender, age_group, subjects and course_types.
OneReducedPayloadPerDocument ==
    (pc = "stats_returned" /\ stats_which = "student") =>
        /\ Len(docs_to_update) = Len(stats_given)
        /\ \A k \in 1..Len(stats_given) :
              /\ \A i \in 1..Len(docs_to_update[k].d) :
                    docs_to_update[k].d[i][1] \in PayloadKeys
              /\ HasKey(stats_given[k].d, "username") =>
                    /\ HasKey(docs_to_update[k].d, "username")
                    /\ GetItem(docs_to_update[k].d, "username")
                           = GetItem(stats_given[k].d, "username")

SavedWithinRetries ==
    pc = "save_returned" =>
        /\ save_call.attempts <= MAX_RETRY_ATTEMPTS
        /\ save_call.result = "True" =>
              /\ save_call.attempts >= 1
              /\ save_call.answers[save_call.attempts] = "document"
        /\ save_call.result = "False" =>
              /\ save_call.backup_attempted
              /\ \A k \in 1..save_call.attempts : save_call.answers[k] # "document"
        /\ (/\ save_call.database_up
            /\ \E k \in 1..MAX_RETRY_ATTEMPTS : save_call.answers[k] = "document")
              => save_call.result = "True"

\* ---------------------------------------------------------------------------
\* Greedy clustering in frequency order (lines 141-171)
\* ---------------------------------------------------------------------------

\* The clustering loop has just ended.
LoopEnded == pc = "originals"

\* The clusters whose seed has a similarity to v above the threshold.
SeedsAbove(v) ==
    {j \in 1..Len(clusters) :
        clusters[j][1] = v
        \/ RatioAbove(similarity_ratio(clusters[j][1], v), threshold)}

\* The seeds stand in the clusters in the order of sorted_values.
SeedsInFrequencyOrder ==
    \A j \in 1..Len(clusters), k \in 1..Len(clusters) :
        j < k => FirstIndex(sorted_values, clusters[j][1])
                    < FirstIndex(sorted_values, clusters[k][1])

\* A step of the clustering loop keeps every cluster it found and every member
\* of it.
ClustersKept ==
    pc = "cluster" /\ pc' = "cluster" =>
        /\ Len(clusters') >= Len(clusters)
        /\ \A k \in 1..Len(clusters) : clusters'[k] = clusters[k]

\* C22: clustering is greedy in descending frequency order: when the loop has
\* ended the seeds stand in the order of sorted_values and a value other than
\* "Unknown" is a member of cluster k exactly when the seed of k is the earliest
\* seed whose similarity_ratio(seed, v) is above the threshold; and a step of the
\* loop never moves a value out of the cluster it was put in.
GreedyEarliestSeed ==
    /\ [](LoopEnded =>
            /\ SeedsInFrequencyOrder
            /\ \A v \in ClusteredValues :
                  \E above \in {SeedsAbove(v)} :
                      /\ above # {}
                      /\ \A k \in 1..Len(clusters) :
                            v \in Range(clusters[k]) <=> k = SetMin(above))
    /\ [][ClustersKept]_vars

\* Witness of C22: a finished call with two clusters and a member of the first
\* cluster that the second seed resembles above the threshold as well.
GreedyWitness ==
    /\ Returned
    /\ Len(clusters) >= 2
    /\ \E m \in 2..Len(clusters[1]) :
          RatioAbove(similarity_ratio(clusters[2][1], clusters[1][m]), threshold)

\* The positions of cluster k whose member has the highest count of the cluster.
TopPositions(k) ==
    {m \in 1..Len(clusters[k]) :
        \A n \in 1..Len(clusters[k]) :
            CountOf(cleaned_values, clusters[k][m])
                >= CountOf(cleaned_values, clusters[k][n])}

\* C23: the canonical of a cluster is the member inserted first among those that
\* tie for the highest frequency, and that member is the seed: every member of
\* the cluster is mapped to the display name of the first member.
CanonicalIsSeed ==
    pc = "returned" =>
        \A k \in 1..Len(clusters) :
            /\ SetMin(TopPositions(k)) = 1
            /\ \A m \in Range(clusters[k]) :
                  /\ m \in DOMAIN mapping
                  /\ mapping[m] = display_name(clusters[k][SetMin(TopPositions(k))])

\* Witness of C23: a finished call with a cluster in which a later member ties
\* with the seed for the highest frequency.
CanonicalTieWitness ==
    /\ Returned
    /\ \E k \in 1..Len(clusters) : Cardinality(TopPositions(k)) >= 2

\* ---------------------------------------------------------------------------
\* The similarity graph of the distinct cleaned values
\* ---------------------------------------------------------------------------

\* The edges of the graph: two distinct clustered values one of whose
\* similarities is above the threshold.
SimilarityEdges ==
    {e \in ClusteredValues \X ClusteredValues :
        /\ e[1] # e[2]
        /\ \/ RatioAbove(similarity_ratio(e[1], e[2]), threshold)
           \/ RatioAbove(similarity_ratio(e[2], e[1]), threshold)}

\* The values joined to a value of the set by a path of at most n more edges.
RECURSIVE ReachableFrom(_, _, _)
ReachableFrom(set, edges, n) ==
    IF n = 0 THEN set
    ELSE ReachableFrom(set \cup {e[2] : e \in {d \in edges : d[1] \in set}},
                       edges, n - 1)

\* The connected component of v.
ComponentOf(v, edges) == ReachableFrom({v}, edges, Cardinality(ClusteredValues))

\* C25: the greedy partition refines the partition into connected components:
\* all the members of a returned cluster lie in the connected component of its
\* seed.
ClustersWithinComponents ==
    pc = "returned" =>
        \E edges \in {SimilarityEdges} :
            \A k \in 1..Len(clusters) :
                Range(clusters[k]) \subseteq ComponentOf(clusters[k][1], edges)

\* Witness of C25: a finished call with a cluster of two members or more whose
\* connected component holds a value of another cluster as well.
ProperRefinementWitness ==
    /\ Returned
    /\ \E k \in 1..Len(clusters) :
          /\ Len(clusters[k]) >= 2
          /\ ~(ComponentOf(clusters[k][1], SimilarityEdges)
                  \subseteq Range(clusters[k]))

(***************************************************************************)
(* cluster_similar_values called again on a batch derived from the first   *)
(* call: the same values in another order, or the labels it returned       *)
(* (SpecAgain)                                                             *)
(***************************************************************************)
\* The raw values of the batches.
AgainPool ==
    { PyNone, PyStr(<<"F", "a", "r", "e", "h", "a", "m">>),
      PyStr(<<"F", "a", "r", "n", "h", "a", "m">>),
      PyStr(<<"F", "a", "r", "n", "a", "m">>),
      PyStr(<<"?">>) }

\* The other orders in which the second call receives the values.
Reorderings(values) == {Reverse(values)} \ {values}

InitAgain ==
    /\ variant \in Variants
    /\ entry = "cluster"
    /\ category = "college"
    /\ threshold = DefaultThreshold
    /\ value_list \in SeqsUpTo(AgainPool, MaxBatch)
    /\ documents = <<>>
    /\ field_path = <<>>
    /\ pc = "start"
    /\ LocalsReset
    /\ prev_threshold = 0
    /\ prev_clusters = <<>>
    /\ CleanIdle
    /\ SimIdle
    /\ OtherIdle

\* What the call that has returned was given and what it returned.
FirstCall(kind) ==
    [kind |-> kind, value_list |-> value_list, clusters |-> clusters,
     original_to_canonical |-> original_to_canonical, cluster_info |-> cluster_info]

\* A second call of cluster_similar_values with the same values in another order.
Reorder ==
    /\ pc = "returned"
    /\ again.kind = "first"
    /\ \E reordered \in Reorderings(value_list) : value_list' = reordered
    /\ again' = FirstCall("reordered")
    /\ cleaned_values' = <<>>
    /\ sorted_values' = <<>>
    /\ seed_index' = 0
    /\ clusters' = <<>>
    /\ assigned' = {}
    /\ mapping' = <<>>
    /\ original_to_canonical' = <<>>
    /\ cluster_info' = <<>>
    /\ pc' = "start"
    /\ UNCHANGED <<variant, entry, documents, field_path, category, threshold,
                   normalised_values, prev_threshold, prev_clusters, clean_vars,
                   sim_vars, map_vars, range_call, stats_vars, save_call, upload,
                   bulk>>

\* A second call of cluster_similar_values with the labels of the first call,
\* one label per original value.
Refeed ==
    /\ pc = "returned"
    /\ again.kind = "first"
    /\ value_list # <<>>
    /\ \A k \in 1..Len(value_list) : value_list[k] \in DOMAIN original_to_canonical
    /\ value_list' = [k \in 1..Len(value_list) |->
                         PyStr(original_to_canonical[value_list[k]])]
    /\ again' = FirstCall("refed")
    /\ cleaned_values' = <<>>
    /\ sorted_values' = <<>>
    /\ seed_index' = 0
    /\ clusters' = <<>>
    /\ assigned' = {}
    /\ mapping' = <<>>
    /\ original_to_canonical' = <<>>
    /\ cluster_info' = <<>>
    /\ pc' = "start"
    /\ UNCHANGED <<variant, entry, documents, field_path, category, threshold,
                   normalised_values, prev_threshold, prev_clusters, clean_vars,
                   sim_vars, map_vars, range_call, stats_vars, save_call, upload,
                   bulk>>

NextAgain ==
    \/ ReturnEmpty
    \/ CleanValues
    \/ DirectMap
    \/ CountFrequencies
    \/ ClusterStep
    \/ BuildMapping
    \/ BuildOriginals
    \/ Reorder
    \/ Refeed

SpecAgain == InitAgain /\ [][NextAgain]_vars

\* The sets of original values that share a label.
PartitionOf(labels) ==
    {{o \in DOMAIN labels : labels[o] = labels[p]} : p \in DOMAIN labels}

\* Some batch and some other order of it get different labels from
\* cluster_similar_values(batch, cat, thr).
OrderMatters(which, cat, thr) ==
    \E batch \in SeqsUpTo(AgainPool, MaxBatch) :
        \E reordered \in Reorderings(batch) :
            \E one \in {cluster_similar_values(which, batch, cat, thr)} :
                \E other \in {cluster_similar_values(which, reordered, cat, thr)} :
                    one.original_to_canonical # other.original_to_canonical

\* C24: the result is not a function of the multiset of values: for the module,
\* category and threshold of the call there are a batch and another order of the
\* same batch that get different labels.
OrderDependent ==
    pc = "start" /\ again.kind = "first" =>
        OrderMatters(variant, category, threshold)

\* Witness of C24: the second call, given the values of the first call in
\* another order, has returned another partition of the values.
OrderWitness ==
    /\ pc = "returned"
    /\ again.kind = "reordered"
    /\ PartitionOf(original_to_canonical) # PartitionOf(again.original_to_canonical)

\* C26 as stated: when the labels that a call returned, one per original value,
\* are given to a second call with the same category and threshold, the second
\* call maps every label to itself.
LabelsStable ==
    pc = "returned" /\ again.kind = "refed" =>
        \A k \in 1..Len(value_list) :
            /\ value_list[k] \in DOMAIN original_to_canonical
            /\ original_to_canonical[value_list[k]] = value_list[k].s

(***************************************************************************)
(* database.upload_local_backups and database.save_interview (SpecUpload)  *)
(***************************************************************************)
MaxFiles == 2

\* The usernames of the documents in the backup files.
Usernames == {"u1", "u2"}

\* The least id that no document of the store has.
FreshId(store) == SetMax({0} \cup {d.id : d \in store}) + 1

\* collection.find_one_and_update(filter_query, {"$set": document}, upsert=True,
\* return_document=AFTER) when the store does what it is asked: the documents
\* that match are looked up by _id or by username, the first one takes the fields
\* of document, and without a match a new document is inserted.
find_one_and_update(store, by_id, username) ==
    LET matching == IF by_id # 0 THEN {d \in store : d.id = by_id}
                    ELSE {d \in store : d.username = username}
        found == IF matching # {}
                 THEN SetMin({d.id : d \in matching})
                 ELSE IF by_id # 0 THEN by_id ELSE FreshId(store)
    IN [id |-> found,
        store |-> {d \in store : d.id # found}
                      \cup {[id |-> found, username |-> username]}]

\* save_interview(document, type, update_if_exists): what it returns, the store
\* and st.session_state.mongo_doc_id (0: absent) after it, and whether
\* _create_backup was called.  answer is what the store does with the update.
save_interview(username, type, update_if_exists, env, answer) ==
    LET failed == [result |-> "False", store |-> env.store,
                   mongo_doc_id |-> env.mongo_doc_id, backup |-> TRUE]
    IN IF get_collection(<<type>>, env.database_up, env.names) # "collection"
       THEN failed
       ELSE IF answer # "document" THEN failed
       ELSE LET updated == find_one_and_update(env.store, env.mongo_doc_id, username)
            IN [result |-> "True", store |-> updated.store,
                mongo_doc_id |-> IF update_if_exists THEN updated.id
                                 ELSE env.mongo_doc_id,
                backup |-> FALSE]

\* if success: os.remove(backup_path), with the files kept as the set of their
\* positions in backup_files; a fault removes the file whatever the result.
after_upload_always(on_disk, k, success) == on_disk \ {k}

\* if success: os.remove(backup_path)
after_upload(on_disk, k, success) == IF success THEN on_disk \ {k} ELSE on_disk

\* upload_local_backups("Student") is called: the backup files, what the store
\* answers to the update of each, the configuration, and whether the session has
\* stored a document before.
InitUpload ==
    /\ pc = "upload"
    /\ category = "none"
    /\ \E files \in SeqsUpTo([username : Usernames, readable : BOOLEAN], MaxFiles) :
       \E answers \in [1..Len(files) -> StoreAnswers] :
       \E names \in CollectionNames :
       \E database_up \in BOOLEAN :
       \E earlier \in BOOLEAN :
          upload = [files |-> files, answers |-> answers, names |-> names,
                    database_up |-> database_up, fresh |-> ~earlier,
                    store |-> IF earlier THEN {[id |-> 1, username |-> "u0"]} ELSE {},
                    mongo_doc_id |-> IF earlier THEN 1 ELSE 0,
                    on_disk |-> 1..Len(files), written |-> {},
                    index |-> 0, results |-> <<>>]
    /\ again = [kind |-> "first"]
    /\ bulk = <<>>
    /\ range_call = [module |-> "data_summary", percentage |-> 0, result |-> ""]
    /\ StatsIdle
    /\ SaveIdle
    /\ ClusterIdle
    /\ CleanIdle
    /\ SimIdle
    /\ MapIdle

\* backup_files = glob.glob(...); if not backup_files: return
UploadGlob ==
    /\ pc = "upload"
    /\ IF upload.files = <<>>
       THEN pc' = "upload_returned" /\ UNCHANGED upload
       ELSE pc' = "upload_loop" /\ upload' = [upload EXCEPT !.index = 1]
    /\ UNCHANGED <<category, cluster_vars, clean_vars, sim_vars, map_vars, range_call,
                   stats_vars, save_call, again, bulk>>

\* One turn of "for backup_path in backup_files": json.load, save_interview,
\* os.remove on success; an exception is logged and the loop goes on.
UploadFile ==
    /\ pc = "upload_loop"
    /\ upload.index <= Len(upload.files)
    /\ \E k \in {upload.index} : \E file \in {upload.files[upload.index]} :
          IF ~file.readable
          THEN upload' = [upload EXCEPT !.index = k + 1,
                                        !.results = Append(@, "raised")]
          ELSE \E saved \in {save_interview(file.username, "Student", TRUE, upload,
                                            upload.answers[k])} :
                  upload' = [upload EXCEPT
                      !.index = k + 1,
                      !.results = Append(@, saved.result),
                      !.store = saved.store,
                      !.mongo_doc_id = saved.mongo_doc_id,
                      !.written = IF saved.backup THEN @ \cup {file.username} ELSE @,
                      !.on_disk = after_upload(@, k, saved.result = "True")]
    /\ UNCHANGED <<pc, category, cluster_vars, clean_vars, sim_vars, map_vars,
                   range_call, stats_vars, save_call, again, bulk>>

\* The loop has run through backup_files.
UploadReturn ==
    /\ pc = "upload_loop"
    /\ upload.index > Len(upload.files)
    /\ pc' = "upload_returned"
    /\ UNCHANGED <<category, cluster_vars, clean_vars, sim_vars, map_vars, range_call,
                   stats_vars, save_call, late_vars>>

NextUpload == UploadGlob \/ UploadFile \/ UploadReturn

SpecUpload == InitUpload /\ [][NextUpload]_vars

OneDocumentPerBackup ==
    (/\ pc = "upload_returned"
     /\ upload.fresh
     /\ upload.on_disk = {}
     /\ \A j \in 1..Len(upload.files), k \in 1..Len(upload.files) :
           j # k => upload.files[j].username # upload.files[k].username)
    => /\ Cardinality(upload.store) = Len(upload.files)
       /\ \A k \in 1..Len(upload.files) :
             \E d \in upload.store : d.username = upload.files[k].username

(***************************************************************************)
(* normalise_mongodb_data.update_documents and                             *)
(* database.update_documents_with_normalised_data (SpecBulk)               *)
(***************************************************************************)
MaxUpdates == 2

\* The two bulk-update routines.
BulkRoutines == {"update_documents", "update_documents_with_normalised_data"}

\* doc.get("username") of the documents followed: the key is absent (None), or
\* holds an empty or a non-empty string.
BulkUsernames == {"absent", "", "u1", "u2"}

\* What the store does with an update_one: modified_count is 1, modified_count is
\* 0, or the call raises.
UpdateAnswers == {"modified", "unmodified", "error"}

\* username = doc.get("username"); if not username
MissingUsername(username) == username \in {"absent", ""}

\* One turn of "for doc in batch" that forgets to count a document without a
\* username (a fault).
update_one_document_uncounted(doc, answer) ==
    IF MissingUsername(doc.username) THEN [outcome |-> "skipped", written |-> FALSE]
    ELSE IF answer = "error" THEN [outcome |-> "error", written |-> TRUE]
    ELSE IF answer = "modified" THEN [outcome |-> "success", written |-> TRUE]
    ELSE [outcome |-> "error", written |-> TRUE]

\* One turn of "for doc in batch": which counter is incremented and whether
\* collection.update_one was called for the document.
update_one_document(doc, answer) ==
    IF MissingUsername(doc.username) THEN [outcome |-> "error", written |-> FALSE]
    ELSE IF answer = "error" THEN [outcome |-> "error", written |-> TRUE]
    ELSE IF answer = "modified" THEN [outcome |-> "success", written |-> TRUE]
    ELSE [outcome |-> "error", written |-> TRUE]

\* A bulk update is called: the routine, the documents, what the store answers
\* to the update of each, and for the routine of database.py the configuration,
\* the state of the database behind get_collection(collection_type) and whether
\* the connection test passes.
InitBulk ==
    /\ pc = "bulk"
    /\ category = "none"
    /\ \E routine \in BulkRoutines :
       \E docs \in SeqsUpTo([username : BulkUsernames], MaxUpdates) :
       \E answers \in [1..Len(docs) -> UpdateAnswers] :
       \E names \in CollectionNames :
       \E database_up \in BOOLEAN :
       \E connected \in BOOLEAN :
          /\ routine = "update_documents" =>
                database_up /\ connected /\ names.kind = "dict"
          /\ bulk = [routine |-> routine, documents |-> docs, answers |-> answers,
                     names |-> names, database_up |-> database_up,
                     connected |-> connected,
                     index |-> 0, success_count |-> 0, error_count |-> 0,
                     outcomes |-> <<>>, written |-> {}, returned |-> <<>>]
    /\ again = [kind |-> "first"]
    /\ upload = <<>>
    /\ range_call = [module |-> "data_summary", percentage |-> 0, result |-> ""]
    /\ StatsIdle
    /\ SaveIdle
    /\ ClusterIdle
    /\ CleanIdle
    /\ SimIdle
    /\ MapIdle

\* The lines before the loop.  update_documents is handed the collection;
\* update_documents_with_normalised_data gets it from get_collection and
\* returns (0, error_msg) without one, or when the connection test fails.
BulkBegin ==
    /\ pc = "bulk"
    /\ IF /\ bulk.routine = "update_documents_with_normalised_data"
          /\ \/ get_collection(<<"Student">>, bulk.database_up, bulk.names)
                   # "collection"
             \/ ~bulk.connected
       THEN /\ pc' = "bulk_returned"
            /\ bulk' = [bulk EXCEPT !.returned = <<0, "error_msg">>]
       ELSE /\ pc' = "bulk_loop"
            /\ bulk' = [bulk EXCEPT !.index = 1]
    /\ UNCHANGED <<category, cluster_vars, clean_vars, sim_vars, map_vars, range_call,
                   stats_vars, save_call, again, upload>>

\* One turn of "for doc in batch" (the batches follow one another, so the
\* documents are taken in their order).
UpdateDocument ==
    /\ pc = "bulk_loop"
    /\ bulk.index <= Len(bulk.documents)
    /\ \E k \in {bulk.index} :
       \E turn \in {update_one_document(bulk.documents[bulk.index],
                                        bulk.answers[bulk.index])} :
          bulk' = [bulk EXCEPT
              !.index = k + 1,
              !.success_count = IF turn.outcome = "success" THEN @ + 1 ELSE @,
              !.error_count = IF turn.outcome = "error" THEN @ + 1 ELSE @,
              !.outcomes = Append(@, turn.outcome),
              !.written = IF turn.written THEN @ \cup {k} ELSE @]
    /\ UNCHANGED <<pc, category, cluster_vars, clean_vars, sim_vars, map_vars,
                   range_call, stats_vars, save_call, again, upload>>

\* The return after the loop: (success_count, error_count) in
\* normalise_mongodb_data, (success_count, message or None) in database.
BulkReturn ==
    /\ pc = "bulk_loop"
    /\ bulk.index > Len(bulk.documents)
    /\ bulk' = [bulk EXCEPT !.returned =
           IF bulk.routine = "update_documents"
           THEN <<bulk.success_count, bulk.error_count>>
           ELSE IF bulk.success_count = 0 THEN <<0, "error_msg">>
           ELSE IF bulk.error_count > 0 THEN <<bulk.success_count, "error_msg">>
           ELSE <<bulk.success_count, "None">>]
    /\ pc' = "bulk_returned"
    /\ UNCHANGED <<category, cluster_vars, clean_vars, sim_vars, map_vars, range_call,
                   stats_vars, save_call, again, upload>>

NextBulk == BulkBegin \/ UpdateDocument \/ BulkReturn

SpecBulk == InitBulk /\ [][NextBulk]_vars

\* The loop over the documents is running or has ended.
BulkLooped == pc = "bulk_loop" \/ (pc = "bulk_returned" /\ bulk.index >= 1)

\* C29: in both routines, after each document success_count + error_count is the
\* number of documents processed so far, whatever the store answers; a document
\* without a username is not written to the store and counts as an error; and
\* the loop goes through all the documents whatever happened to the earlier ones.
CountsAddUp ==
    BulkLooped =>
        /\ bulk.success_count + bulk.error_count = bulk.index - 1
        /\ Len(bulk.outcomes) = bulk.index - 1
        /\ \A k \in 1..Len(bulk.outcomes) :
              MissingUsername(bulk.documents[k].username) =>
                  k \notin bulk.written /\ bulk.outcomes[k] = "error"
        /\ pc = "bulk_returned" => bulk.index = Len(bulk.documents) + 1

\* Witness of C29: a routine has returned after a document without a username
\* and a document whose update raised were followed by a document that the store
\* modified.
CountsWitness ==
    /\ pc = "bulk_returned"
    /\ Len(bulk.outcomes) >= 2
    /\ \/ MissingUsername(bulk.documents[1].username)
       \/ bulk.answers[1] = "error"
    /\ bulk.outcomes[1] = "error"
    /\ bulk.outcomes[2] = "success"
    /\ bulk.success_count = 1

(***************************************************************************)
(* Properties of the statistics of generate_stats_with_normalised_values   *)
(***************************************************************************)
\* The sum of the counts of the labels in labels.
RECURSIVE SumCounts(_, _)
SumCounts(counts, labels) ==
    IF labels = {} THEN 0
    ELSE LET label == CHOOSE x \in labels : TRUE
         IN counts[label] + SumCounts(counts, labels \ {label})

\* C27: in the statistics that either module returns, the counts of the labels
\* of college, of gender and of age_group each sum to the number of documents.
CountsSumToDocuments ==
    pc = "stats_returned" =>
        /\ SumCounts(stats.college, DOMAIN stats.college) = Len(stats_given)
        /\ SumCounts(stats.gender, DOMAIN stats.gender) = Len(stats_given)
        /\ SumCounts(stats.age_group, DOMAIN stats.age_group) = Len(stats_given)

\* Witness of C27: the student module has returned the statistics of two
\* documents that share their gender label and differ in their college label.
CountsSumWitness ==
    /\ pc = "stats_returned"
    /\ stats_which = "student"
    /\ Len(stats_given) = 2
    /\ Cardinality(DOMAIN stats.college) = 2
    /\ Cardinality(DOMAIN stats.gender) = 1

\* The college label of payload k.
PayloadCollege(k) == GetItem(docs_to_update[k].d, "college").s

\* C28 as stated: in the student module the college label of every payload is a
\* key of stats["college"], and the number of payloads that carry a label is the
\* count of the label in stats["college"].
PayloadsAgreeWithStats ==
    pc = "stats_returned" /\ stats_which = "student" =>
        /\ \A k \in 1..Len(docs_to_update) : PayloadCollege(k) \in DOMAIN stats.college
        /\ \A label \in DOMAIN stats.college :
              Cardinality({k \in 1..Len(docs_to_update) : PayloadCollege(k) = label})
                  = stats.college[label]

====
